---- MODULE Spec2Model ----
(***************************************************************************)
(* Model of the safety_glass search pipeline: the search API               *)
(* (api/views.py), the bot's text handler, its chunker and its sender      *)
(* (bot_app/main.py), the renderer (bot_app/formatters.py) and the catalog *)
(* administration that runs concurrently with them (catalog/admin.py).     *)
(*                                                                         *)
(* Strings are sequences of one-character strings.  The sentinel brand tag *)
(* of the source is the Cyrillic word for "shared"; here it is written     *)
(* with the two Latin letters "ob", upper case "OB".                       *)
(***************************************************************************)
EXTENDS Integers, Sequences, FiniteSets, TLC

VARIABLES
    groupActive,      \* GlassGroup.is_active, per group id
    glassActive,      \* Glass.is_active, per glass id
    adminOps,         \* number of catalog writes committed so far
    pc,               \* position of SearchView.get
    q,                \* request.query_params["q"]
    q_stripped,       \* views.py:46
    qn,               \* views.py:47
    candidates,       \* views.py:81
    best_by_group,    \* views.py:99 (dict, in insertion order)
    groups_by_id,     \* views.py:111 (the ids fetched)
    group_ids_sorted, \* views.py:124
    idx,              \* position of the loop at views.py:130
    results,          \* views.py:129
    response,         \* the Response returned by SearchView.get
    lookups,          \* number of database queries the request has run
    stale,            \* a catalog write was committed while the request ran
    fetchActive,      \* GlassGroup.is_active as the query at views.py:106 saw it
    botPc,            \* position of handle_text
    botText,          \* message.text
    premium,          \* the caller's subscription is active (is_premium_active)
    rendered,         \* the text format_search_result returned, as lines
    sendPc,           \* position of send_long_html
    sendParts,        \* the chunks send_long_html iterates over
    sendIdx,          \* position of the loop at main.py:290
    delivered,        \* the messages the chat has received, in order of arrival
    planActive,       \* PremiumPlan.is_active of the plan
    planPrice,        \* PremiumPlan.price_stars of the plan
    planEdits,        \* number of plan edits committed so far
    premiumUntil,     \* TelegramUser.premium_until of the payer
    starPayments,     \* the rows of StarPayment, in order of creation
    extensions,       \* the periods added to premium_until, in order
    clock,            \* timezone.now(), in days
    dl,               \* the runs of the payment handlers
    arg,              \* input of the function under test (function specifications)
    ret,              \* its result
    applied           \* the function under test has been applied

catalogVars == <<groupActive, glassActive, adminOps>>
apiVars == <<pc, q, q_stripped, qn, candidates, best_by_group, groups_by_id,
             group_ids_sorted, idx, results, response, lookups, stale, fetchActive>>
botVars == <<botPc, botText, premium, rendered>>
sendVars == <<sendPc, sendParts, sendIdx, delivered>>
fnVars == <<arg, ret, applied>>
payVars == <<planActive, planPrice, planEdits, premiumUntil, starPayments,
             extensions, clock, dl>>
vars == <<catalogVars, apiVars, botVars, sendVars, payVars, fnVars>>

-----------------------------------------------------------------------------
(* Bounds *)

MaxBrandLen == 4
MaxQueryLen == 3
MaxCands == 3
MaxItems == 5
MaxCap == 4
MaxAdminOps == 1
MaxResults == 7
MaxPayload == 5
MaxNormLen == 5
MaxSendPayload == 4
MaxLimit == 8
MaxPlanEdits == 1
MaxNow == 1

-----------------------------------------------------------------------------
(* Python str operations *)

UpperChars == <<"A", "B", "O", "H">>
LowerChars == <<"a", "b", "o", "h">>

\* str.lower(), one character
LowerChar(c) ==
    IF \E i \in 1..Len(UpperChars) : UpperChars[i] = c
    THEN LowerChars[CHOOSE i \in 1..Len(UpperChars) : UpperChars[i] = c]
    ELSE c

\* str.lower()
Lower(s) == [i \in 1..Len(s) |-> LowerChar(s[i])]

\* str.isspace(), one character
IsSpace(c) == c \in {" ", "\n"}

RECURSIVE LStrip(_)
LStrip(s) == IF s # <<>> /\ IsSpace(Head(s)) THEN LStrip(Tail(s)) ELSE s

RECURSIVE RStrip(_)
RStrip(s) ==
    IF s # <<>> /\ IsSpace(s[Len(s)]) THEN RStrip(SubSeq(s, 1, Len(s) - 1)) ELSE s

\* str.strip()
Strip(s) == RStrip(LStrip(s))

\* str.split(sep): every part between separators, empty parts included
RECURSIVE SplitOn(_, _)
SplitOn(s, sep) ==
    IF \E i \in 1..Len(s) : s[i] = sep
    THEN LET i == CHOOSE j \in 1..Len(s) :
                      s[j] = sep /\ \A k \in 1..(j - 1) : s[k] # sep
         IN  <<SubSeq(s, 1, i - 1)>> \o SplitOn(SubSeq(s, i + 1, Len(s)), sep)
    ELSE <<s>>

\* str.split(): the maximal runs of non-whitespace characters
RECURSIVE SplitWs(_)
SplitWs(s) ==
    LET t == LStrip(s) IN
    IF t = <<>> THEN <<>>
    ELSE IF \E i \in 1..Len(t) : IsSpace(t[i])
         THEN LET i == CHOOSE j \in 1..Len(t) :
                           IsSpace(t[j]) /\ \A k \in 1..(j - 1) : ~IsSpace(t[k])
              IN  <<SubSeq(t, 1, i - 1)>> \o SplitWs(SubSeq(t, i + 1, Len(t)))
         ELSE <<t>>

\* sep.join(parts)
RECURSIVE Join(_, _)
Join(sep, parts) ==
    IF parts = <<>> THEN <<>>
    ELSE IF Len(parts) = 1 THEN parts[1]
    ELSE parts[1] \o sep \o Join(sep, Tail(parts))

\* str.split(sep) with a separator of several characters: the occurrences are
\* taken from the left and do not overlap
RECURSIVE SplitSeq(_, _)
SplitSeq(s, sep) ==
    LET at == {i \in 0..(Len(s) - Len(sep)) : SubSeq(s, i + 1, i + Len(sep)) = sep}
    IN  IF at = {} THEN <<s>>
        ELSE LET i == CHOOSE j \in at : \A k \in at : j <= k
             IN  <<SubSeq(s, 1, i)>> \o SplitSeq(SubSeq(s, i + Len(sep) + 1, Len(s)), sep)

\* s.startswith(p)
StartsWith(s, p) == Len(p) <= Len(s) /\ SubSeq(s, 1, Len(p)) = p

\* p in s
Contains(s, p) ==
    \E i \in 0..(Len(s) - Len(p)) : SubSeq(s, i + 1, i + Len(p)) = p

\* the sequences over chars of length at most n
RECURSIVE SeqsUpTo(_, _)
SeqsUpTo(chars, n) ==
    IF n = 0 THEN {<<>>}
    ELSE LET shorter == SeqsUpTo(chars, n - 1)
         IN  shorter \cup {Append(s, c) : s \in shorter, c \in chars}

\* the elements of a sequence
Range(s) == {s[i] : i \in 1..Len(s)}

\* [x for x in s if keep]
RECURSIVE SelectSeqIn(_, _)
SelectSeqIn(s, keep) ==
    IF s = <<>> THEN <<>>
    ELSE (IF Head(s) \in keep THEN <<Head(s)>> ELSE <<>>) \o SelectSeqIn(Tail(s), keep)

-----------------------------------------------------------------------------
(* api/views.py: helpers *)

\* Python's None, where a string is expected
None == <<"None">>

\* (s or "")
or_empty(s) == IF s = None THEN <<>> ELSE s

\* s.replace("  ", " "): the pairs of blanks are taken from the left and do
\* not overlap
RECURSIVE ReplaceDouble(_)
ReplaceDouble(s) ==
    IF Len(s) < 2 THEN s
    ELSE IF s[1] = " " /\ s[2] = " "
         THEN <<" ">> \o ReplaceDouble(SubSeq(s, 3, Len(s)))
         ELSE <<s[1]>> \o ReplaceDouble(Tail(s))

\* a plausible slip: the runs of blanks are collapsed by one replace
normalize_replace_once(s) == ReplaceDouble(Lower(Strip(or_empty(s))))

\* views.py:10-11
normalize(s) == Join(<<" ">>, SplitWs(Lower(Strip(or_empty(s)))))

\* the sentinel brand tag, lower case
Sentinel == <<"o", "b">>

BrandParts(brands) ==
    LET raw == SplitOn(Strip(brands), ",")
    IN  {Lower(Strip(raw[i])) : i \in {j \in 1..Len(raw) : Strip(raw[j]) # <<>>}}

\* a plausible slip: a substring test on the whole brand string
BrandsSubstringTest(brands) == Contains(Lower(brands), Sentinel)

\* api/views.py _brands_has_common
_brands_has_common(brands) ==
    LET b == Strip(brands)
    IN  IF b = <<>> THEN FALSE ELSE Sentinel \in BrandParts(b)

\* bot_app/formatters.py _safe, on a string
_safe(s) == Strip(s)

\* bot_app/formatters.py _brands_has_common
fmt_brands_has_common(brands) ==
    LET b == Strip(brands)
    IN  IF b = <<>> THEN FALSE ELSE Sentinel \in BrandParts(b)

-----------------------------------------------------------------------------
(* catalog/models.py: the catalog.  The rows are fixed; the is_active flags *)
(* are the state the administration changes.                                *)

GroupIds == {1, 2, 3}

\* GlassGroup.brands
GroupBrands ==
    <<  <<"H">>,
        <<"O", "B">>,
        <<"H", ",", " ", "o", "b">>  >>

\* GlassGroup.description
GroupDescription == << <<>>, <<"b">>, <<>> >>

\* Glass rows: (group, name), unique together
GlassTable ==
    <<  [group |-> 1, name |-> <<"A">>],
        [group |-> 2, name |-> <<"B", "a">>],
        [group |-> 3, name |-> <<"a", "b">>],
        [group |-> 3, name |-> <<"B">>]  >>

GlassIds == DOMAIN GlassTable

\* GlassAlias rows: (glass, alias), unique together; two glasses of one group
\* may carry the same alias
AliasTable ==
    <<  [glass |-> 1, alias |-> <<"a">>],
        [glass |-> 2, alias |-> <<"B", " ", "a">>],
        [glass |-> 3, alias |-> <<"A", " ", " ", "b">>],
        [glass |-> 4, alias |-> <<"a", "b">>],
        [glass |-> 3, alias |-> <<"a", "b">>]  >>

AliasIds == DOMAIN AliasTable

\* GlassAlias.save: normalized_alias is recomputed on every write
normalized_alias(a) == normalize(AliasTable[a].alias)

\* ORDER BY on a text column: code point order
CharOrder == <<" ", ",", "A", "B", "H", "O", "a", "b", "h", "o">>
CharRank(c) == CHOOSE i \in 1..Len(CharOrder) : CharOrder[i] = c

RECURSIVE StrLess(_, _)
StrLess(s, t) ==
    IF t = <<>> THEN FALSE
    ELSE IF s = <<>> THEN TRUE
    ELSE IF Head(s) = Head(t) THEN StrLess(Tail(s), Tail(t))
    ELSE CharRank(Head(s)) < CharRank(Head(t))

\* the orders in which the database may return the rows of `rows` under
\* ORDER BY key: rows with equal keys come in any order
OrderedBy(rows, key) ==
    {s \in [1..Cardinality(rows) -> rows] :
        /\ \A i, j \in DOMAIN s : i # j => s[i] # s[j]
        /\ \A i, j \in DOMAIN s : i < j => ~StrLess(key[s[j]], key[s[i]])}

\* GlassAlias.Meta.ordering = ["alias"]
AliasKey == [a \in AliasIds |-> AliasTable[a].alias]

\* Glass.Meta.ordering = ["name"], and order_by("name")
GlassKey == [r \in GlassIds |-> GlassTable[r].name]

-----------------------------------------------------------------------------
(* api/views.py SearchView.get: the querysets *)

\* a plausible slip: the group's is_active is not part of the filter
alias_base_no_group_filter(gA, rA) == {a \in AliasIds : rA[AliasTable[a].glass]}

\* views.py:56-59
alias_base(gA, rA) ==
    {a \in AliasIds : /\ rA[AliasTable[a].glass]
                      /\ gA[GlassTable[AliasTable[a].glass].group]}

\* views.py:61-64
glass_base(gA, rA) == {r \in GlassIds : rA[r] /\ gA[GlassTable[r].group]}

\* views.py:67
in_alias_exact(na, n) == na = n

\* views.py:68
in_alias_starts(na, n) == StartsWith(na, n) /\ ~(na = n)

\* a plausible slip: the exclusion of the prefix matches is missing
in_alias_contains_no_exclude(na, n) == Contains(Lower(na), Lower(n)) /\ ~(na = n)

\* views.py:69-74
in_alias_contains(na, n) ==
    Contains(Lower(na), Lower(n)) /\ ~(na = n) /\ ~StartsWith(na, n)

\* views.py:77
in_name_exact(name, qs) == Lower(name) = Lower(qs)

\* views.py:78
in_name_contains(name, qs) ==
    Contains(Lower(name), Lower(qs)) /\ ~(Lower(name) = Lower(qs))

\* the candidate an alias row yields, views.py:84, 86, 88
AliasCandidate(score, a) ==
    [score |-> score,
     group_id |-> GlassTable[AliasTable[a].glass].group,
     name |-> GlassTable[AliasTable[a].glass].name]

\* the candidate a glass row yields, views.py:91, 93
GlassCandidate(score, r) ==
    [score |-> score, group_id |-> GlassTable[r].group, name |-> GlassTable[r].name]

\* the candidates the rows of an alias queryset yield
AliasCandidates(score, rows) == [i \in DOMAIN rows |-> AliasCandidate(score, rows[i])]

\* the candidates the rows of a glass queryset yield
GlassCandidates(score, rows) == [i \in DOMAIN rows |-> GlassCandidate(score, rows[i])]

-----------------------------------------------------------------------------
(* api/views.py SearchView.get: aggregation and ranking *)

\* best_by_group is a dict: here the sequence of its items, in insertion order
DictKeys(d) == [i \in DOMAIN d |-> d[i].group_id]
DictHas(d, gid) == \E i \in DOMAIN d : d[i].group_id = gid
DictGet(d, gid) == d[CHOOSE i \in DOMAIN d : d[i].group_id = gid]

\* a plausible slip: the first candidate of a group is kept, whatever its score
replaces_never(d, c) == ~DictHas(d, c.group_id)

\* views.py:101
replaces(d, c) ==
    ~DictHas(d, c.group_id) \/ c.score < DictGet(d, c.group_id).score

\* views.py:102: an existing key keeps its place in the dict
DictSet(d, c) ==
    IF DictHas(d, c.group_id)
    THEN [i \in DOMAIN d |-> IF d[i].group_id = c.group_id THEN c ELSE d[i]]
    ELSE Append(d, c)

\* a plausible slip: every candidate is kept, and the groups are not merged
Aggregate_unmerged(d, cands) == d \o cands

\* views.py:99-102
RECURSIVE Aggregate(_, _)
Aggregate(d, cands) ==
    IF cands = <<>> THEN d
    ELSE Aggregate(IF replaces(d, Head(cands)) THEN DictSet(d, Head(cands)) ELSE d,
                   Tail(cands))

\* views.py:120, 122: the first component of the sort key
api_shared_flag(brands) == IF _brands_has_common(brands) THEN 0 ELSE 1

\* formatters.py:54-56: the renderer's sort key
fmt_shared_flag(brands) == IF fmt_brands_has_common(_safe(brands)) THEN 0 ELSE 1

\* a plausible slip: the score is compared before the brand flag
_sort_gid_score_first(gid, best, fetched, brandsOf) ==
    LET brands == IF gid \in fetched THEN brandsOf[gid] ELSE <<>>
    IN  <<DictGet(best, gid).score, api_shared_flag(brands), gid>>

\* views.py:117-122
_sort_gid(gid, best, fetched, brandsOf) ==
    LET brands == IF gid \in fetched THEN brandsOf[gid] ELSE <<>>
    IN  <<api_shared_flag(brands), DictGet(best, gid).score, gid>>

\* tuple comparison k1 < k2 of two keys of integers
RECURSIVE TupleLess(_, _)
TupleLess(k1, k2) ==
    IF k2 = <<>> THEN FALSE
    ELSE IF k1 = <<>> THEN TRUE
    ELSE IF Head(k1) = Head(k2) THEN TupleLess(Tail(k1), Tail(k2))
    ELSE Head(k1) < Head(k2)

\* sorted(ids, key=...): a stable sort, written as insertion from the left
RECURSIVE SortedByKey(_, _)
SortedByKey(ids, key) ==
    IF ids = <<>> THEN <<>>
    ELSE LET init == SortedByKey(SubSeq(ids, 1, Len(ids) - 1), key)
             x == ids[Len(ids)]
             n == Cardinality({i \in DOMAIN init : ~TupleLess(key[x], key[init[i]])})
         IN  SubSeq(init, 1, n) \o <<x>> \o SubSeq(init, n + 1, Len(init))

\* views.py:124-127
group_ids_sorted_of(best, fetched, brandsOf) ==
    LET ids == SelectSeqIn(DictKeys(best), fetched)
        key == [gid \in Range(ids) |-> _sort_gid(gid, best, fetched, brandsOf)]
    IN  SortedByKey(ids, key)

\* views.py:106-111: the active groups among the candidates' groups
fetch_groups_unfiltered(best, gA) == Range(DictKeys(best))

fetch_groups(best, gA) == {g \in Range(DictKeys(best)) : gA[g]}

\* views.py:14-21
_group_payload(g) ==
    [id |-> g, brands |-> GroupBrands[g], description |-> GroupDescription[g]]

\* a plausible slip: the item list is cut for callers without a subscription
compatible_glasses_cut(g, rA) ==
    LET rows == {r \in GlassIds : GlassTable[r].group = g /\ rA[r]}
        order == CHOOSE s \in OrderedBy(rows, GlassKey) : TRUE
        full == [i \in DOMAIN order |-> GlassTable[order[i]].name]
    IN  IF premium THEN full ELSE SubSeq(full, 1, 1)

\* views.py:135-140: names are unique within a group, so the order is determined
compatible_glasses(g, rA) ==
    LET rows == {r \in GlassIds : GlassTable[r].group = g /\ rA[r]}
        order == CHOOSE s \in OrderedBy(rows, GlassKey) : TRUE
    IN  [i \in DOMAIN order |-> GlassTable[order[i]].name]

-----------------------------------------------------------------------------
(* bot_app/formatters.py format_search_result.  The text is modelled as the *)
(* sequence of its lines; a line is its kind, the text it interpolates and  *)
(* the numbers it interpolates.                                             *)

Max(a, b) == IF a >= b THEN a ELSE b
Min(a, b) == IF a <= b THEN a ELSE b

Line(kind, text, nums) == [kind |-> kind, text |-> text, nums |-> nums]

max_groups == 5
desc_budget == 300
desc_cut == 297
FREE_GLASSES_LIMIT == 3

\* formatters.py:30-38
NotFoundBlock(query) ==
    LET qq == _safe(query)
    IN  <<Line("nf_title", <<>>, <<>>), Line("blank", <<>>, <<>>)>>
        \o (IF qq # <<>>
            THEN <<Line("nf_query", qq, <<>>), Line("blank", <<>>, <<>>)>>
            ELSE <<>>)
        \o <<Line("nf_hint", <<>>, <<>>), Line("nf_example", <<>>, <<>>)>>

\* formatters.py:79
CleanGlasses(glasses) ==
    LET stripped == [i \in DOMAIN glasses |-> Strip(glasses[i])]
    IN  SelectSeqIn(stripped, Range(stripped) \ {<<>>})

\* a plausible slip: names are compared without regard to letter case
RECURSIVE Uniq_caseless(_, _)
Uniq_caseless(glasses, seen) ==
    IF glasses = <<>> THEN <<>>
    ELSE IF Lower(Head(glasses)) \in seen THEN Uniq_caseless(Tail(glasses), seen)
    ELSE <<Head(glasses)>>
         \o Uniq_caseless(Tail(glasses), seen \cup {Lower(Head(glasses))})

\* formatters.py:82-87
RECURSIVE Uniq(_, _)
Uniq(glasses, seen) ==
    IF glasses = <<>> THEN <<>>
    ELSE IF Head(glasses) \in seen THEN Uniq(Tail(glasses), seen)
    ELSE <<Head(glasses)>> \o Uniq(Tail(glasses), seen \cup {Head(glasses)})

\* a plausible slip: the slice keeps one item too many
shown_items_one_more(uniq, is_premium, limit) ==
    IF is_premium THEN uniq
    ELSE SubSeq(uniq, 1, Min(Len(uniq), Max(0, limit) + 1))

\* formatters.py:89-93
shown_items(uniq, is_premium, limit) ==
    IF is_premium THEN uniq
    ELSE SubSeq(uniq, 1, Min(Len(uniq), Max(0, limit)))

\* formatters.py:91, 94
rest_items(uniq, is_premium, limit) ==
    IF is_premium THEN 0
    ELSE Max(0, Len(uniq) - Len(shown_items(uniq, is_premium, limit)))

\* a plausible slip: a group without names gets no line under the heading
ItemLines_omitting(uniq, is_premium, limit) ==
    LET shown == shown_items(uniq, is_premium, limit)
        rest == rest_items(uniq, is_premium, limit)
    IN  [i \in DOMAIN shown |-> Line("item", shown[i], <<>>)]
        \o (IF ~is_premium /\ rest > 0
            THEN <<Line("locked", <<>>, <<rest>>)>>
            ELSE <<>>)

\* formatters.py:96-99
ItemLines(uniq, is_premium, limit) ==
    LET shown == shown_items(uniq, is_premium, limit)
        rest == rest_items(uniq, is_premium, limit)
    IN  (IF shown # <<>>
         THEN [i \in DOMAIN shown |-> Line("item", shown[i], <<>>)]
         ELSE <<Line("empty", <<>>, <<>>)>>)
        \o (IF ~is_premium /\ rest > 0
            THEN <<Line("locked", <<>>, <<rest>>)>>
            ELSE <<>>)

\* formatters.py:107-111
DescLine(description) ==
    LET desc == IF Len(description) > desc_budget
                THEN Append(RStrip(SubSeq(description, 1, desc_cut)), "...")
                ELSE description
    IN  Line("description", desc, <<>>)

\* formatters.py:72-116: one group block; its first line is the empty line
\* the "\n" before the ordinal marker makes
Block(n, item, is_premium, limit) ==
    LET matched == _safe(item.matched_glass)
        brands == _safe(item.group.brands)
        description == _safe(item.group.description)
        uniq == Uniq(CleanGlasses(item.compatible_glasses), {})
    IN  <<Line("blank", <<>>, <<>>), Line("variant", <<>>, <<n>>)>>
        \o (IF matched # <<>> THEN <<Line("matched", matched, <<>>)>> ELSE <<>>)
        \o (IF brands # <<>> THEN <<Line("brands", brands, <<>>)>> ELSE <<>>)
        \o (IF description # <<>> THEN <<DescLine(description)>> ELSE <<>>)
        \o <<Line("items_heading", <<>>, <<>>)>>
        \o ItemLines(uniq, is_premium, limit)

\* formatters.py:44-49: the result built when data carries no "results"
LegacyResult ==
    [matched_glass |-> <<>>,
     group |-> [id |-> 0, brands |-> <<>>, description |-> <<>>],
     compatible_glasses |-> <<>>]

\* a plausible slip: the renderer sorts by the flag and then by the group id
SortedResults_by_id(rs) ==
    LET key == [i \in DOMAIN rs |->
                   <<fmt_shared_flag(rs[i].group.brands), rs[i].group.id>>]
        order == SortedByKey([i \in DOMAIN rs |-> i], key)
    IN  [i \in DOMAIN rs |-> rs[order[i]]]

\* formatters.py:52-58
SortedResults(rs) ==
    LET key == [i \in DOMAIN rs |-> <<fmt_shared_flag(rs[i].group.brands)>>]
        order == SortedByKey([i \in DOMAIN rs |-> i], key)
    IN  [i \in DOMAIN rs |-> rs[order[i]]]

RECURSIVE Flatten(_)
Flatten(ss) == IF ss = <<>> THEN <<>> ELSE Head(ss) \o Flatten(Tail(ss))

\* a plausible slip: the line is appended whatever the tier
call_to_action_always(is_premium) == <<Line("call_to_action", <<>>, <<>>)>>

\* formatters.py:67-70
call_to_action(is_premium) ==
    IF ~is_premium THEN <<Line("call_to_action", <<>>, <<>>)>> ELSE <<>>

\* a plausible slip: the slice is forgotten
shown_groups_uncut(rs) == rs

\* formatters.py:61
shown_groups(rs) == SubSeq(rs, 1, Min(Len(rs), max_groups))

\* formatters.py:62
remainder_groups(rs) == Max(0, Len(rs) - Len(shown_groups(rs)))

\* formatters.py:20-124
format_search_result(data, is_premium, limit) ==
    IF ~data.found THEN NotFoundBlock(data.query)
    ELSE LET rs == SortedResults(IF data.results # <<>> THEN data.results
                                 ELSE <<LegacyResult>>)
             shown == shown_groups(rs)
         IN  <<Line("header", <<>>, <<>>)>>
             \o call_to_action(is_premium)
             \o Flatten([n \in DOMAIN shown |->
                            Block(n, shown[n], is_premium, limit)])
             \o (IF remainder_groups(rs) > 0
                 THEN <<Line("blank", <<>>, <<>>),
                        Line("summary", <<>>,
                             <<Len(shown), Len(rs), remainder_groups(rs)>>)>>
                 ELSE <<>>)

-----------------------------------------------------------------------------
(* bot_app/main.py split_html_message, on the text as a string of           *)
(* characters.  The marker of the source is a line break, the twelve         *)
(* characters that open the ordinal line of a group block, and a blank; the  *)
(* model writes the twelve characters as the one character "V".              *)

\* main.py:247
marker == <<"\n", "V", " ">>

\* a plausible slip: the marker that split() removed is not put back
piece_without_marker(part) == Strip(part)

\* main.py:253
piece(part) == Strip(marker \o part)

\* a plausible slip: nothing is ever joined to the current chunk
fits_current_never(current, p, max_len) == FALSE

\* main.py:258
fits_current(current, p, max_len) == Len(current) + 2 + Len(p) <= max_len

\* main.py:251-265: the loop over parts[1:], then the last append
RECURSIVE chunks_of(_, _, _)
chunks_of(current, parts, max_len) ==
    IF parts = <<>> THEN (IF current # <<>> THEN <<current>> ELSE <<>>)
    ELSE LET p == piece(Head(parts))
         IN  IF current = <<>> THEN chunks_of(p, Tail(parts), max_len)
             ELSE IF fits_current(current, p, max_len)
                  THEN chunks_of(current \o <<"\n", "\n">> \o p, Tail(parts), max_len)
                  ELSE <<current>> \o chunks_of(p, Tail(parts), max_len)

\* a plausible slip: the chunk is cut at blanks
split_at_blanks(ch) == SplitOn(ch, " ")

\* main.py:273
split_lines(ch) == SplitOn(ch, "\n")

\* a plausible slip: the room is tested before the line is added
line_fits_before(cur, add, max_len) == Len(cur) <= max_len

\* main.py:277
line_fits(cur, add, max_len) == Len(cur) + Len(add) <= max_len

\* main.py:280-281, 283-284
flush(cur) == IF Strip(cur) # <<>> THEN <<Strip(cur)>> ELSE <<>>

\* main.py:274-284: the loop over the lines of one chunk, then the last append
RECURSIVE line_chunks(_, _, _)
line_chunks(cur, lines, max_len) ==
    IF lines = <<>> THEN flush(cur)
    ELSE LET add == Append(Head(lines), "\n")
         IN  IF line_fits(cur, add, max_len)
             THEN line_chunks(cur \o add, Tail(lines), max_len)
             ELSE flush(cur) \o line_chunks(add, Tail(lines), max_len)

\* main.py:267-284
final_of(chunks, max_len) ==
    Flatten([i \in DOMAIN chunks |->
                IF Len(chunks[i]) <= max_len THEN <<chunks[i]>>
                ELSE line_chunks(<<>>, split_lines(chunks[i]), max_len)])

\* main.py:243-286
split_html_message(text, max_len) ==
    IF Len(text) <= max_len THEN <<text>>
    ELSE LET parts == SplitSeq(text, marker)
         IN  final_of(chunks_of(Strip(parts[1]), Tail(parts), max_len), max_len)

\* main.py:45; 3900 in the source, brought down to the payloads of the model
\* as the marker is
TG_MAX_MESSAGE == 4

-----------------------------------------------------------------------------
(* The search request: bot_app/main.py handle_text and api/views.py          *)
(* SearchView.get.  The querysets of get are lazy: each runs as its own      *)
(* database query where it is iterated, and the catalog may be written        *)
(* between two of them.                                                       *)

\* the q parameters and message texts of the model; closed under Strip
PipelineQueries ==
    {<<>>, <<" ">>, <<"a">>, <<" ", "a", " ">>, <<"B">>, <<"a", "b">>,
     <<"a", "a">>, <<"A", " ", "b">>}

NoResponse == [status |-> 0, found |-> FALSE, query |-> <<>>, results |-> <<>>]

\* views.py:50-53
BadRequest == [status |-> 400, found |-> FALSE, query |-> <<>>, results |-> <<>>]

\* views.py:151-154
Found(query, rs) == [status |-> 200, found |-> TRUE, query |-> query, results |-> rs]

\* a plausible slip: a success with an empty result list
NotFound_empty_success(query) == Found(query, <<>>)

\* views.py:96, 149
NotFound(query) == [status |-> 200, found |-> FALSE, query |-> query, results |-> <<>>]

(* Payments: the tables of billing/models.py and the pure helpers of      *)
(* bot_app/main.py that the payment handlers use.  One PremiumPlan row,    *)
(* one paying TelegramUser; dates are whole days.                          *)

\* PremiumPlan.code of the one plan the table holds
PlanCode == <<"a">>

\* PremiumPlan.duration_days of that plan
duration_days == 1

\* PremiumPlan.price_stars as the administration may set it
Prices == {1, 2}

\* TelegramUser.premium_until IS NULL
Null == 0 - 1

\* the paying user's telegram id
Payer == 1

\* str(user_id) and int(...) on the ids that occur
DigitChars == <<"0", "1", "2", "3", "4", "5", "6", "7", "8", "9">>

DigitValue(c) == (CHOOSE i \in DOMAIN DigitChars : DigitChars[i] = c) - 1

\* str(n) for 0 <= n <= 9
StrOfInt(n) == <<DigitChars[n + 1]>>

\* int(s) succeeds: optional blanks around, an optional sign, decimal digits
IsIntLiteral(s) ==
    LET t == Strip(s)
        body == IF t # <<>> /\ Head(t) \in {"+", "-"} THEN Tail(t) ELSE t
    IN  body # <<>> /\ \A i \in DOMAIN body : body[i] \in Range(DigitChars)

RECURSIVE DecimalValue(_)
DecimalValue(body) ==
    IF body = <<>> THEN 0
    ELSE 10 * DecimalValue(SubSeq(body, 1, Len(body) - 1))
         + DigitValue(body[Len(body)])

\* int(s), where it succeeds
IntOf(s) ==
    LET t == Strip(s)
    IN  IF Head(t) = "-" THEN 0 - DecimalValue(Tail(t))
        ELSE IF Head(t) = "+" THEN DecimalValue(Tail(t))
        ELSE DecimalValue(t)

\* main.py:80-83; the nonce is random, here the one letter "n"
make_payload(user_id, plan_code) ==
    LET payload == <<"p", ":">> \o plan_code \o <<":">> \o StrOfInt(user_id)
                   \o <<":", "n">>
    IN  SubSeq(payload, 1, Min(Len(payload), 128))

\* main.py:85-94: None is the record with parsed = FALSE
parse_payload(payload) ==
    LET parts == SplitSeq(or_empty(payload), <<":">>)
    IN  IF Len(parts) < 4 \/ parts[1] # <<"p">>
        THEN [parsed |-> FALSE, plan_code |-> <<>>, user_id |-> 0]
        ELSE IF ~IsIntLiteral(parts[3])
        THEN [parsed |-> FALSE, plan_code |-> <<>>, user_id |-> 0]
        ELSE [parsed |-> TRUE, plan_code |-> parts[2], user_id |-> IntOf(parts[3])]

\* PremiumPlan.objects.filter(code=plan_code, is_active=True).first()
NoPlan == [found |-> FALSE, price_stars |-> 0, duration_days |-> 0]

active_plan(plan_code, active, price) ==
    IF plan_code = PlanCode /\ active
    THEN [found |-> TRUE, price_stars |-> price, duration_days |-> duration_days]
    ELSE NoPlan

\* a plausible slip: the amount is not compared with the price of the plan
amount_matches_always(total_amount, plan) == TRUE

\* main.py:169, 208
amount_matches(total_amount, plan) == total_amount = plan.price_stars

\* main.py:153-172
_precheckout_validate_sync(from_user_id, currency, total_amount, payload, active, price) ==
    LET parsed == parse_payload(payload)
        plan == active_plan(parsed.plan_code, active, price)
    IN  IF currency # "XTR" THEN [ok |-> FALSE, err |-> "currency"]
        ELSE IF ~parsed.parsed THEN [ok |-> FALSE, err |-> "payload"]
        ELSE IF parsed.user_id # from_user_id THEN [ok |-> FALSE, err |-> "user"]
        ELSE IF ~plan.found THEN [ok |-> FALSE, err |-> "plan"]
        ELSE IF ~amount_matches(total_amount, plan) THEN [ok |-> FALSE, err |-> "amount"]
        ELSE [ok |-> TRUE, err |-> ""]

\* main.py:193-209: the validation of _apply_success_payment_sync; the plan
\* is the row its query returned
apply_validation(ev, active, price) ==
    LET parsed == parse_payload(ev.invoice_payload)
        plan == active_plan(parsed.plan_code, active, price)
    IN  IF ev.currency # "XTR" THEN [ok |-> FALSE, msg |-> "currency", plan |-> NoPlan]
        ELSE IF ~parsed.parsed THEN [ok |-> FALSE, msg |-> "payload", plan |-> NoPlan]
        ELSE IF parsed.user_id # ev.tg_id THEN [ok |-> FALSE, msg |-> "user", plan |-> NoPlan]
        ELSE IF ~plan.found THEN [ok |-> FALSE, msg |-> "plan", plan |-> NoPlan]
        ELSE IF ~amount_matches(ev.total_amount, plan)
        THEN [ok |-> FALSE, msg |-> "amount", plan |-> NoPlan]
        ELSE [ok |-> TRUE, msg |-> "", plan |-> plan]

\* a plausible slip: the column is not declared unique
unique_violation_never(rows, charge) == FALSE

\* billing/models.py:53: unique=True; an INSERT of a charge id that a row
\* already carries raises IntegrityError
unique_violation(rows, charge) ==
    \E i \in DOMAIN rows : rows[i].telegram_payment_charge_id = charge

\* a plausible slip: the new period always starts now
base_always_now(premium_until, now) == now

\* main.py:231
base(premium_until, now) ==
    IF premium_until # Null /\ premium_until > now THEN premium_until ELSE now

\* the deliveries (handler calls) that may run side by side
Deliveries == {1, 2}

\* a message or query of Telegram about a payment: what the handlers read
PayQuery(tg_id, currency, total_amount, payload) ==
    [tg_id |-> tg_id, currency |-> currency, total_amount |-> total_amount,
     invoice_payload |-> payload]

\* well-formed queries for the plan, at either price, and queries with one
\* thing wrong: the currency, the payload, the user or the plan named
PayQueries ==
    {PayQuery(Payer, "XTR", a, make_payload(Payer, PlanCode)) : a \in Prices}
    \cup {PayQuery(Payer, "USD", 1, make_payload(Payer, PlanCode)),
          PayQuery(Payer, "XTR", 1, <<"p", ":", "a", ":", "1">>),
          PayQuery(Payer, "XTR", 1, <<"q", ":", "a", ":", "1", ":", "n">>),
          PayQuery(Payer, "XTR", 1, <<"p", ":", "a", ":", "x", ":", "n">>),
          PayQuery(Payer, "XTR", 1, make_payload(2, PlanCode)),
          PayQuery(Payer, "XTR", 1, make_payload(Payer, <<"b">>))}

NoQuery == PayQuery(0, "", 0, <<>>)

IdleDelivery ==
    [pc |-> "idle", ev |-> NoQuery, charge |-> 0, plan |-> NoPlan,
     ok |-> FALSE, msg |-> "", accepted |-> FALSE]

IdlePay ==
    /\ planActive = TRUE /\ planPrice = 1 /\ planEdits = 0
    /\ premiumUntil = Null
    /\ starPayments = <<>>
    /\ extensions = <<>>
    /\ clock = 0
    /\ dl = [d \in Deliveries |-> IdleDelivery]

IdleApi ==
    /\ pc = "idle" /\ q = <<>> /\ q_stripped = <<>> /\ qn = <<>>
    /\ candidates = <<>> /\ best_by_group = <<>> /\ groups_by_id = {}
    /\ group_ids_sorted = <<>> /\ idx = 0 /\ results = <<>>
    /\ response = NoResponse /\ lookups = 0 /\ stale = FALSE
    /\ fetchActive = [g \in GroupIds |-> FALSE]

IdleBot == botPc = "idle" /\ botText = <<>> /\ premium = FALSE /\ rendered = <<>>

IdleFn == arg = <<>> /\ ret = <<>> /\ applied = FALSE

IdleSend == sendPc = "idle" /\ sendParts = <<>> /\ sendIdx = 0 /\ delivered = <<>>

IdleCatalog ==
    /\ groupActive = [g \in GroupIds |-> TRUE]
    /\ glassActive = [r \in GlassIds |-> TRUE]
    /\ adminOps = 0

Init == IdleCatalog /\ IdleApi /\ IdleBot /\ IdleSend /\ IdlePay /\ IdleFn

\* main.py:522-548: the handler up to the call of the search API.  The three
\* keyboard captions (main.py:530-538) are not among the texts of the model, and
\* the analytics events (main.py:540-545) write nothing the search reads.
HandleText(text, isPremium) ==
    /\ botPc = "idle" /\ pc = "idle"
    /\ botText' = text
    /\ premium' = isPremium
    /\ botPc' = IF Strip(text) = <<>> THEN "returned" ELSE "searching"
    /\ UNCHANGED <<rendered, catalogVars, apiVars, fnVars, sendVars, payVars>>

\* a plausible slip: the check of the empty query is missing
query_is_missing_never(n) == FALSE

\* views.py:49
query_is_missing(n) == n = <<>>

\* views.py:44-53: called by the bot (main.py:69-74) or by any other client
Get(param, isPremium) ==
    /\ pc = "idle"
    /\ \/ botPc = "searching" /\ param = Strip(botText) /\ isPremium = premium
       \/ botPc = "idle" /\ isPremium = FALSE
    /\ q' = param
    /\ q_stripped' = Strip(param)
    /\ qn' = normalize(Strip(param))
    /\ premium' = isPremium
    /\ stale' = FALSE
    /\ IF query_is_missing(normalize(Strip(param)))
       THEN pc' = "done" /\ response' = BadRequest
       ELSE pc' = "alias_exact" /\ response' = NoResponse
    /\ UNCHANGED <<candidates, best_by_group, groups_by_id, group_ids_sorted, idx,
                   results, lookups, fetchActive>>
    /\ UNCHANGED <<botPc, botText, rendered, catalogVars, fnVars, sendVars, payVars>>

\* one queryset of views.py:83-93 is run and its rows are appended
RunQuery(at, next, found) ==
    /\ pc = at
    /\ candidates' = candidates \o found
    /\ lookups' = lookups + 1
    /\ pc' = next
    /\ UNCHANGED <<q, q_stripped, qn, best_by_group, groups_by_id, group_ids_sorted,
                   idx, results, response, stale, fetchActive>>
    /\ UNCHANGED <<botVars, catalogVars, fnVars, sendVars, payVars>>

\* views.py:83-84
AliasExact ==
    \E rows \in OrderedBy({a \in alias_base(groupActive, glassActive) :
                               in_alias_exact(normalized_alias(a), qn)}, AliasKey) :
        RunQuery("alias_exact", "alias_starts", AliasCandidates(0, rows))

\* views.py:85-86
AliasStarts ==
    \E rows \in OrderedBy({a \in alias_base(groupActive, glassActive) :
                               in_alias_starts(normalized_alias(a), qn)}, AliasKey) :
        RunQuery("alias_starts", "alias_contains", AliasCandidates(1, rows))

\* views.py:87-88
AliasContains ==
    \E rows \in OrderedBy({a \in alias_base(groupActive, glassActive) :
                               in_alias_contains(normalized_alias(a), qn)}, AliasKey) :
        RunQuery("alias_contains", "name_exact", AliasCandidates(2, rows))

\* views.py:90-91
NameExact ==
    \E rows \in OrderedBy({r \in glass_base(groupActive, glassActive) :
                               in_name_exact(GlassTable[r].name, q_stripped)}, GlassKey) :
        RunQuery("name_exact", "name_contains", GlassCandidates(3, rows))

\* views.py:92-93
NameContains ==
    \E rows \in OrderedBy({r \in glass_base(groupActive, glassActive) :
                               in_name_contains(GlassTable[r].name, q_stripped)}, GlassKey) :
        RunQuery("name_contains", "groups", GlassCandidates(4, rows))

\* views.py:95-96
NoCandidates ==
    /\ pc = "groups" /\ candidates = <<>>
    /\ response' = NotFound(q_stripped)
    /\ pc' = "done"
    /\ UNCHANGED <<q, q_stripped, qn, candidates, best_by_group, groups_by_id,
                   group_ids_sorted, idx, results, lookups, stale, fetchActive>>
    /\ UNCHANGED <<botVars, catalogVars, fnVars, sendVars, payVars>>

\* views.py:98-127, and 148-149 when no group was fetched.  The prefetch of
\* views.py:109 is a second query whose rows are never read: the filter at
\* views.py:137 queries again.
FetchGroups ==
    /\ pc = "groups" /\ candidates # <<>>
    /\ LET best == Aggregate(<<>>, candidates)
           fetched == fetch_groups(best, groupActive)
           sorted == group_ids_sorted_of(best, fetched, GroupBrands)
       IN  /\ best_by_group' = best
           /\ groups_by_id' = fetched
           /\ group_ids_sorted' = sorted
           /\ IF sorted = <<>>
              THEN pc' = "done" /\ response' = NotFound(q_stripped) /\ idx' = 0
              ELSE pc' = "compatible" /\ response' = response /\ idx' = 1
    /\ fetchActive' = groupActive
    /\ lookups' = lookups + 1
    /\ UNCHANGED <<q, q_stripped, qn, candidates, results, stale>>
    /\ UNCHANGED <<botVars, catalogVars, fnVars, sendVars, payVars>>

\* a plausible slip: the view tidies the catalog as it goes, and switches off
\* a group for which it finds no glass to list
FetchCompatible_tidying ==
    /\ pc = "compatible"
    /\ LET gid == group_ids_sorted[idx]
           rs == Append(results,
                        [matched_glass |-> DictGet(best_by_group, gid).name,
                         group |-> _group_payload(gid),
                         compatible_glasses |-> compatible_glasses(gid, glassActive)])
       IN  /\ results' = rs
           /\ groupActive' = [groupActive EXCEPT
                                 ![gid] = compatible_glasses(gid, glassActive) # <<>>]
           /\ IF idx = Len(group_ids_sorted)
              THEN pc' = "done" /\ response' = Found(q_stripped, rs) /\ idx' = idx
              ELSE pc' = "compatible" /\ response' = response /\ idx' = idx + 1
    /\ lookups' = lookups + 1
    /\ UNCHANGED <<q, q_stripped, qn, candidates, best_by_group, groups_by_id,
                   group_ids_sorted, stale, fetchActive>>
    /\ UNCHANGED <<botVars, glassActive, adminOps, fnVars, sendVars, payVars>>

\* views.py:130-154: one turn of the loop, and the response after the last
FetchCompatible ==
    /\ pc = "compatible"
    /\ LET gid == group_ids_sorted[idx]
           rs == Append(results,
                        [matched_glass |-> DictGet(best_by_group, gid).name,
                         group |-> _group_payload(gid),
                         compatible_glasses |-> compatible_glasses(gid, glassActive)])
       IN  /\ results' = rs
           /\ IF idx = Len(group_ids_sorted)
              THEN pc' = "done" /\ response' = Found(q_stripped, rs) /\ idx' = idx
              ELSE pc' = "compatible" /\ response' = response /\ idx' = idx + 1
    /\ lookups' = lookups + 1
    /\ UNCHANGED <<q, q_stripped, qn, candidates, best_by_group, groups_by_id,
                   group_ids_sorted, stale, fetchActive>>
    /\ UNCHANGED <<botVars, catalogVars, fnVars, sendVars, payVars>>

\* main.py:547-590: the response arrives and is rendered
BotRender ==
    /\ botPc = "searching" /\ pc = "done"
    /\ IF response.status # 200
       THEN botPc' = "error" /\ rendered' = rendered
       ELSE /\ botPc' = "sent"
            /\ rendered' = format_search_result(response, premium, FREE_GLASSES_LIMIT)
    /\ UNCHANGED <<botText, premium, catalogVars, apiVars, fnVars, sendVars, payVars>>

\* the request is over; the next one starts from fresh locals
Finish ==
    /\ \/ botPc \in {"returned", "sent", "error"}
       \/ botPc = "idle" /\ pc = "done"
    /\ pc' = "idle" /\ q' = <<>> /\ q_stripped' = <<>> /\ qn' = <<>>
    /\ candidates' = <<>> /\ best_by_group' = <<>> /\ groups_by_id' = {}
    /\ group_ids_sorted' = <<>> /\ idx' = 0 /\ results' = <<>>
    /\ response' = NoResponse /\ lookups' = 0 /\ stale' = FALSE
    /\ fetchActive' = [g \in GroupIds |-> FALSE]
    /\ botPc' = "idle" /\ botText' = <<>> /\ premium' = FALSE /\ rendered' = <<>>
    /\ UNCHANGED <<catalogVars, fnVars, sendVars, payVars>>

\* a request has begun and its locals are still held
InFlight == pc # "idle"

\* catalog/admin.py:272-399 import_xlsx_view, one transaction; `listed` are the
\* glasses the sheet names (all of them exist), and the two flags are the
\* form's deactivate_missing_groups and deactivate_missing_models
ImportXlsx(listed, deactivate_missing_groups, deactivate_missing_models) ==
    LET sheetGroups == {GlassTable[r].group : r \in listed}
        gA == [g \in GroupIds |->
                  IF g \in sheetGroups THEN TRUE
                  ELSE IF deactivate_missing_groups THEN FALSE ELSE groupActive[g]]
        rA == [r \in GlassIds |->
                  IF r \in listed THEN TRUE
                  ELSE IF deactivate_missing_models /\ GlassTable[r].group \in sheetGroups
                       THEN FALSE ELSE glassActive[r]]
    IN  /\ adminOps < MaxAdminOps
        /\ <<gA, rA>> # <<groupActive, glassActive>>
        /\ groupActive' = gA
        /\ glassActive' = rA
        /\ adminOps' = adminOps + 1
        /\ stale' = (stale \/ InFlight)
        /\ UNCHANGED <<pc, q, q_stripped, qn, candidates, best_by_group, groups_by_id,
                       group_ids_sorted, idx, results, response, lookups, fetchActive>>
        /\ UNCHANGED <<botVars, fnVars, sendVars, payVars>>

\* catalog/admin.py:114-143: is_active of one glass edited in the group's inline
SetGlassActive(r, b) ==
    /\ adminOps < MaxAdminOps
    /\ glassActive[r] # b
    /\ glassActive' = [glassActive EXCEPT ![r] = b]
    /\ adminOps' = adminOps + 1
    /\ stale' = (stale \/ InFlight)
    /\ UNCHANGED <<groupActive, pc, q, q_stripped, qn, candidates, best_by_group,
                   groups_by_id, group_ids_sorted, idx, results, response, lookups,
                   fetchActive>>
    /\ UNCHANGED <<botVars, fnVars, sendVars, payVars>>

Next ==
    \/ \E text \in PipelineQueries, p \in BOOLEAN : HandleText(text, p)
    \/ \E param \in PipelineQueries, p \in BOOLEAN : Get(param, p)
    \/ AliasExact
    \/ AliasStarts
    \/ AliasContains
    \/ NameExact
    \/ NameContains
    \/ NoCandidates
    \/ FetchGroups
    \/ FetchCompatible
    \/ BotRender
    \/ Finish
    \/ \E listed \in SUBSET GlassIds, dg \in BOOLEAN, dm \in BOOLEAN :
           ImportXlsx(listed, dg, dm)
    \/ \E r \in GlassIds, b \in BOOLEAN : SetGlassActive(r, b)

Spec == Init /\ [][Next]_vars

-----------------------------------------------------------------------------
(* Function specifications: one function of the source applied to inputs    *)
(* drawn from a bounded set, with the catalog and the request idle.         *)

IdleRest == IdleCatalog /\ IdleApi /\ IdleBot /\ IdleSend /\ IdlePay

Apply(value) ==
    /\ ~applied
    /\ applied' = TRUE
    /\ ret' = value
    /\ UNCHANGED <<arg, catalogVars, apiVars, botVars, sendVars, payVars>>

(* the brand flag: views.py _brands_has_common and formatters.py's copy *)

BrandChars == {"o", "b", "O", ",", " "}
BrandStrings == SeqsUpTo(BrandChars, MaxBrandLen)

InitBrands ==
    /\ IdleRest /\ ret = <<>> /\ applied = FALSE
    /\ arg \in [brands : BrandStrings]

ApplyBrands ==
    Apply([api |-> api_shared_flag(arg.brands), bot |-> fmt_shared_flag(arg.brands)])

NextBrands == ApplyBrands

SpecBrands == InitBrands /\ [][NextBrands]_vars

(* the aggregator: views.py:99-102 on candidate lists in any order *)

Tiers == 0..4
CandNames == {<<"A">>, <<"B">>}
CandGroups == {1, 2}
CandidateLists ==
    SeqsUpTo([score : Tiers, group_id : CandGroups, name : CandNames], MaxCands)

InitAgg ==
    /\ IdleRest /\ ret = <<>> /\ applied = FALSE
    /\ arg \in [candidates : CandidateLists]

ApplyAgg == Apply(Aggregate(<<>>, arg.candidates))

NextAgg == ApplyAgg

SpecAgg == InitAgg /\ [][NextAgg]_vars

(* the ranker: views.py:113-127 on any best_by_group and any brand tags *)

PlainBrand == <<"H">>
SharedBrand == <<"O", "B">>

\* the dicts over the group ids, in every insertion order
RankDicts ==
    {d \in SeqsUpTo([score : Tiers, group_id : GroupIds, name : {<<"A">>}],
                    Cardinality(GroupIds)) :
        \A i, j \in DOMAIN d : i # j => d[i].group_id # d[j].group_id}

InitRank ==
    /\ IdleRest /\ ret = <<>> /\ applied = FALSE
    /\ arg \in {a \in [best : RankDicts,
                       brandsOf : [GroupIds -> {PlainBrand, SharedBrand}],
                       fetched : SUBSET GroupIds] :
                    a.fetched \subseteq Range(DictKeys(a.best))}

ApplyRank == Apply(group_ids_sorted_of(arg.best, arg.fetched, arg.brandsOf))

NextRank == ApplyRank

SpecRank == InitRank /\ [][NextRank]_vars

(* the matcher: the five querysets of views.py:66-93 on a corpus of one     *)
(* active alias or one active glass of an active group                      *)

QueryChars == {"a", "B", " "}
QueryStrings == SeqsUpTo(QueryChars, MaxQueryLen)

InitMatch ==
    /\ IdleRest /\ ret = <<>> /\ applied = FALSE
    /\ arg \in [q : QueryStrings, kind : {"alias", "glass"}, text : QueryStrings]

\* the scores of the candidates the entry yields, in the order of views.py:83-93
MatchScores(param, kind, text) ==
    LET qs == Strip(param)
        n == normalize(qs)
        na == normalize(text)
    IN  IF kind = "alias"
        THEN (IF in_alias_exact(na, n) THEN <<0>> ELSE <<>>)
             \o (IF in_alias_starts(na, n) THEN <<1>> ELSE <<>>)
             \o (IF in_alias_contains(na, n) THEN <<2>> ELSE <<>>)
        ELSE (IF in_name_exact(text, qs) THEN <<3>> ELSE <<>>)
             \o (IF in_name_contains(text, qs) THEN <<4>> ELSE <<>>)

ApplyMatch ==
    Apply(IF query_is_missing(normalize(Strip(arg.q)))
          THEN [rejected |-> TRUE, scores |-> <<>>]
          ELSE [rejected |-> FALSE, scores |-> MatchScores(arg.q, arg.kind, arg.text)])

NextMatch == ApplyMatch

SpecMatch == InitMatch /\ [][NextMatch]_vars

(* the renderer: formatters.py format_search_result on found results *)

\* names as the catalog holds them, pairwise different
ItemPool == << <<"A">>, <<"B">>, <<"a">>, <<"b">>, <<"A", "B">>, <<"B", "A">>,
               <<"a", "b">> >>

\* a repeated name, a name with surrounding blanks, a blank name
ExtraItems == Range(ItemPool) \cup {<<" ", "A">>, <<"B", " ">>, <<" ">>}

InsertAt(s, p, e) == SubSeq(s, 1, p) \o <<e>> \o SubSeq(s, p + 1, Len(s))

\* the first n names of the pool, alone or with one extra item put anywhere
ItemLists ==
    UNION {LET pool == SubSeq(ItemPool, 1, n)
           IN  {pool} \cup {InsertAt(pool, p, e) : p \in 0..n, e \in ExtraItems} :
           n \in 0..Min(MaxItems, Len(ItemPool))}

\* the found result whose k-th group lists items[k..]
RenderData(items, ngroups) ==
    Found(<<"a">>,
          [k \in 1..ngroups |->
              [matched_glass |-> <<"A">>,
               group |-> [id |-> k, brands |-> PlainBrand, description |-> <<>>],
               compatible_glasses |-> SubSeq(items, k, Len(items))]])

InitRender ==
    /\ IdleRest /\ ret = <<>> /\ applied = FALSE
    /\ arg \in [items : ItemLists, ngroups : 1..MaxResults, is_premium : BOOLEAN,
                limit : (0 - 1)..MaxCap]

ApplyRender ==
    Apply(format_search_result(RenderData(arg.items, arg.ngroups),
                               arg.is_premium, arg.limit))

NextRender == ApplyRender

SpecRender == InitRender /\ [][NextRender]_vars

(* the ranker and the renderer in a row: the list of views.py:113-146 is    *)
(* passed to format_search_result                                           *)

\* a glass name that tells the group: the group id in unary
NameOfGroup(gid) == [j \in 1..gid |-> "A"]

\* views.py:98-102: one best candidate per group, groups 1..n in insertion order
OrderBest(n, score) ==
    [gid \in 1..n |-> [score |-> score[gid], group_id |-> gid, name |-> NameOfGroup(gid)]]

\* views.py:124-146: the result list of the response
OrderResults(n, score, brandsOf) ==
    LET best == OrderBest(n, score)
        ids == group_ids_sorted_of(best, 1..n, brandsOf)
    IN  [i \in DOMAIN ids |->
            [matched_glass |-> DictGet(best, ids[i]).name,
             group |-> [id |-> ids[i], brands |-> brandsOf[ids[i]], description |-> <<>>],
             compatible_glasses |-> <<NameOfGroup(ids[i])>>]]

\* what the ranking looks at in a group: its brand tag and its best tier
OrderProfiles ==
    {[brands |-> PlainBrand, score |-> 0], [brands |-> PlainBrand, score |-> 4],
     [brands |-> SharedBrand, score |-> 4]}

InitOrder ==
    /\ IdleRest /\ ret = <<>> /\ applied = FALSE
    /\ arg \in UNION {[n : {n}, profile : [1..n -> OrderProfiles]] :
                      n \in 1..MaxResults}

ApplyOrder ==
    LET entries == OrderResults(arg.n,
                                [g \in 1..arg.n |-> arg.profile[g].score],
                                [g \in 1..arg.n |-> arg.profile[g].brands])
    IN  Apply([api |-> entries,
               text |-> format_search_result(Found(<<"a">>, entries), TRUE,
                                             FREE_GLASSES_LIMIT)])

NextOrder == ApplyOrder

SpecOrder == InitOrder /\ [][NextOrder]_vars

(* the normalizer: views.py normalize on any string and on None *)

NormChars == {"a", "B", " ", "\n"}
NormInputs == SeqsUpTo(NormChars, MaxNormLen) \cup {None}

InitNorm ==
    /\ IdleRest /\ ret = <<>> /\ applied = FALSE
    /\ arg \in [s : NormInputs]

ApplyNorm == Apply([once |-> normalize(arg.s), twice |-> normalize(normalize(arg.s))])

NextNorm == ApplyNorm

SpecNorm == InitNorm /\ [][NextNorm]_vars

(* the chunker: main.py split_html_message on any payload and limit *)

\* the pieces a payload is put together from: a letter, a blank, a line
\* break, the marker, and the marker's letter outside a marker
PayloadTokens == {<<"x">>, <<" ">>, <<"\n">>, marker, <<"V">>}

Payloads == {Flatten(ts) : ts \in SeqsUpTo(PayloadTokens, MaxPayload)}

InitSplit ==
    /\ IdleRest /\ ret = <<>> /\ applied = FALSE
    /\ arg \in [text : Payloads, max_len : 0..MaxLimit]

ApplySplit == Apply(split_html_message(arg.text, arg.max_len))

NextSplit == ApplySplit

SpecSplit == InitSplit /\ [][NextSplit]_vars

(* the sender: main.py send_long_html, one step per call and per return of *)
(* message.answer                                                           *)

SendPayloads == {Flatten(ts) : ts \in SeqsUpTo(PayloadTokens, MaxSendPayload)}

\* a plausible slip: the chunks are taken from the last to the first
part_from_end(chunks, i) == chunks[Len(chunks) + 1 - i]

\* main.py:290: the chunk the loop is at
part(chunks, i) == chunks[i]

InitSend == IdleCatalog /\ IdleApi /\ IdleBot /\ IdleSend /\ IdlePay /\ IdleFn

\* main.py:289-290: the call, and the chunks of the text
SendLongHtml(text) ==
    /\ sendPc = "idle"
    /\ sendParts' = split_html_message(text, TG_MAX_MESSAGE)
    /\ sendIdx' = 1
    /\ sendPc' = "loop"
    /\ UNCHANGED <<delivered, catalogVars, apiVars, botVars, fnVars, payVars>>

\* main.py:291: message.answer(part) is called and awaited
AnswerCall ==
    /\ sendPc = "loop" /\ sendIdx <= Len(sendParts)
    /\ sendPc' = "awaiting"
    /\ UNCHANGED <<sendParts, sendIdx, delivered, catalogVars, apiVars, botVars, fnVars, payVars>>

\* main.py:291: the awaited call returns; the chat has the message
AnswerReturns ==
    /\ sendPc = "awaiting"
    /\ delivered' = Append(delivered, part(sendParts, sendIdx))
    /\ sendIdx' = sendIdx + 1
    /\ sendPc' = "loop"
    /\ UNCHANGED <<sendParts, catalogVars, apiVars, botVars, fnVars, payVars>>

\* main.py:291: the awaited call raises (the transport failed, or the chat
\* refused the message); the message may or may not have arrived, and the
\* exception leaves send_long_html
AnswerRaises(arrived) ==
    /\ sendPc = "awaiting"
    /\ delivered' = IF arrived THEN Append(delivered, part(sendParts, sendIdx))
                    ELSE delivered
    /\ sendPc' = "raised"
    /\ UNCHANGED <<sendParts, sendIdx, catalogVars, apiVars, botVars, fnVars, payVars>>

\* main.py:290: the loop is over, send_long_html returns
SendReturns ==
    /\ sendPc = "loop" /\ sendIdx > Len(sendParts)
    /\ sendPc' = "done"
    /\ UNCHANGED <<sendParts, sendIdx, delivered, catalogVars, apiVars, botVars, fnVars, payVars>>

NextSend ==
    \/ \E text \in SendPayloads : SendLongHtml(text)
    \/ AnswerCall
    \/ AnswerReturns
    \/ \E arrived \in BOOLEAN : AnswerRaises(arrived)
    \/ SendReturns

SpecSend == InitSend /\ [][NextSend]_vars

-----------------------------------------------------------------------------
(* Payments: bot_app/main.py pre_checkout_handler and                        *)
(* successful_payment_handler over the tables of billing/models.py, with    *)
(* the plan administration running concurrently                             *)

InitPay == IdleCatalog /\ IdleApi /\ IdleBot /\ IdleSend /\ IdleFn /\ IdlePay

PayRest == <<catalogVars, apiVars, botVars, sendVars, fnVars>>

\* main.py:481-491: the pre-checkout query is answered; when the answer is
\* ok Telegram charges the user under a charge id of its own
PreCheckout(d, qy) ==
    /\ dl[d].pc = "idle"
    /\ LET res == _precheckout_validate_sync(qy.tg_id, qy.currency, qy.total_amount,
                                             qy.invoice_payload, planActive, planPrice)
       IN  dl' = [dl EXCEPT ![d] =
                     IF res.ok
                     THEN [IdleDelivery EXCEPT !.pc = "charged", !.ev = qy,
                                               !.charge = d, !.accepted = TRUE]
                     ELSE [IdleDelivery EXCEPT !.pc = "rejected", !.msg = res.err]]
    /\ UNCHANGED <<planActive, planPrice, planEdits, premiumUntil, starPayments,
                   extensions, clock, PayRest>>

\* main.py:494-496: the successful-payment message of a charged payment
\* arrives; the handler upserts the user
SuccessfulPayment(d) ==
    /\ dl[d].pc = "charged"
    /\ dl' = [dl EXCEPT ![d].pc = "validate"]
    /\ UNCHANGED <<planActive, planPrice, planEdits, premiumUntil, starPayments,
                   extensions, clock, PayRest>>

\* main.py:494-496: the message of a payment is delivered once more, to a
\* second run of the handler
Redelivery(d, e) ==
    /\ dl[d].pc = "idle" /\ d # e
    /\ dl[e].pc \in {"validate", "check", "atomic", "done", "raised"}
    /\ dl' = [dl EXCEPT ![d] = [IdleDelivery EXCEPT !.pc = "validate", !.ev = dl[e].ev,
                                                    !.charge = dl[e].charge,
                                                    !.accepted = dl[e].accepted]]
    /\ UNCHANGED <<planActive, planPrice, planEdits, premiumUntil, starPayments,
                   extensions, clock, PayRest>>

\* main.py:178-189: _apply_success_payment_sync is called on a message that
\* no pre-checkout of this bot has accepted
UncheckedPayment(d, qy) ==
    /\ dl[d].pc = "idle"
    /\ dl' = [dl EXCEPT ![d] = [IdleDelivery EXCEPT !.pc = "validate", !.ev = qy,
                                                    !.charge = d]]
    /\ UNCHANGED <<planActive, planPrice, planEdits, premiumUntil, starPayments,
                   extensions, clock, PayRest>>

\* main.py:193-209: the validation, with its query on PremiumPlan
ApplyValidate(d) ==
    /\ dl[d].pc = "validate"
    /\ LET res == apply_validation(dl[d].ev, planActive, planPrice)
       IN  dl' = [dl EXCEPT ![d] =
                     IF res.ok THEN [@ EXCEPT !.pc = "check", !.plan = res.plan]
                     ELSE [@ EXCEPT !.pc = "done", !.ok = FALSE, !.msg = res.msg]]
    /\ UNCHANGED <<planActive, planPrice, planEdits, premiumUntil, starPayments,
                   extensions, clock, PayRest>>

\* main.py:211-214: the query on StarPayment, outside the transaction
CheckProcessed(d) ==
    /\ dl[d].pc = "check"
    /\ dl' = [dl EXCEPT ![d] =
                 IF \E i \in DOMAIN starPayments :
                        starPayments[i].telegram_payment_charge_id = dl[d].charge
                 THEN [@ EXCEPT !.pc = "done", !.ok = FALSE, !.msg = "already"]
                 ELSE [@ EXCEPT !.pc = "atomic"]]
    /\ UNCHANGED <<planActive, planPrice, planEdits, premiumUntil, starPayments,
                   extensions, clock, PayRest>>

\* main.py:216-234: the transaction.  The INSERT fails on the unique column
\* and the block is rolled back, or the row is created and the period added.
ApplyAtomic(d) ==
    /\ dl[d].pc = "atomic"
    /\ IF unique_violation(starPayments, dl[d].charge)
       THEN /\ dl' = [dl EXCEPT ![d].pc = "raised"]
            /\ UNCHANGED <<premiumUntil, starPayments, extensions>>
       ELSE LET until == base(premiumUntil, clock) + dl[d].plan.duration_days
            IN  /\ starPayments' = Append(starPayments,
                        [telegram_payment_charge_id |-> dl[d].charge,
                         total_amount |-> dl[d].ev.total_amount,
                         invoice_payload |-> dl[d].ev.invoice_payload])
                /\ premiumUntil' = until
                /\ extensions' = Append(extensions,
                        [charge |-> dl[d].charge, previous |-> premiumUntil,
                         now |-> clock, until |-> until])
                /\ dl' = [dl EXCEPT ![d].pc = "done", ![d].ok = TRUE, ![d].msg = "paid"]
    /\ UNCHANGED <<planActive, planPrice, planEdits, clock, PayRest>>

\* the Django admin of PremiumPlan: is_active is switched
SetPlanActive(b) ==
    /\ planEdits < MaxPlanEdits /\ b # planActive
    /\ planActive' = b
    /\ planEdits' = planEdits + 1
    /\ UNCHANGED <<planPrice, premiumUntil, starPayments, extensions, clock, dl, PayRest>>

\* the Django admin of PremiumPlan: price_stars is changed
SetPlanPrice(p) ==
    /\ planEdits < MaxPlanEdits /\ p # planPrice
    /\ planPrice' = p
    /\ planEdits' = planEdits + 1
    /\ UNCHANGED <<planActive, premiumUntil, starPayments, extensions, clock, dl, PayRest>>

\* timezone.now() moves on by a day
Tick ==
    /\ clock < MaxNow
    /\ clock' = clock + 1
    /\ UNCHANGED <<planActive, planPrice, planEdits, premiumUntil, starPayments,
                   extensions, dl, PayRest>>

NextPay ==
    \/ \E d \in Deliveries, qy \in PayQueries : PreCheckout(d, qy)
    \/ \E d \in Deliveries : SuccessfulPayment(d)
    \/ \E d, e \in Deliveries : Redelivery(d, e)
    \/ \E d \in Deliveries, qy \in PayQueries : UncheckedPayment(d, qy)
    \/ \E d \in Deliveries : ApplyValidate(d)
    \/ \E d \in Deliveries : CheckProcessed(d)
    \/ \E d \in Deliveries : ApplyAtomic(d)
    \/ \E b \in BOOLEAN : SetPlanActive(b)
    \/ \E p \in Prices : SetPlanPrice(p)
    \/ Tick

SpecPay == InitPay /\ [][NextPay]_vars

-----------------------------------------------------------------------------
(* Properties *)

\* the key (f1, t1, g1) comes strictly before the key (f2, t2, g2)
KeyPrecedes(f1, t1, g1, f2, t2, g2) ==
    \/ f1 < f2
    \/ f1 = f2 /\ t1 < t2
    \/ f1 = f2 /\ t1 = t2 /\ g1 < g2

RankFlag(g) == IF arg.brandsOf[g] = SharedBrand THEN 0 ELSE 1
RankTier(g) == DictGet(arg.best, g).score

\* C1: the groups of a found result are in ascending order of the key
\* (sharedFlag, bestTier, groupId): a group with the shared tag precedes every
\* group without it whatever the tiers, then the lower tier comes first, then
\* the lower group id; the result holds each fetched group exactly once.
Thm_C1_RankOrder ==
    applied =>
        /\ Range(ret) = arg.fetched
        /\ Len(ret) = Cardinality(arg.fetched)
        /\ \A i, j \in DOMAIN ret :
               i < j => KeyPrecedes(RankFlag(ret[i]), RankTier(ret[i]), ret[i],
                                    RankFlag(ret[j]), RankTier(ret[j]), ret[j])

\* C1, the example of the claim: group 1 at tier 0 with a plain brand and
\* group 2 at tier 2 with the shared tag are ranked [2, 1].
Wit_C1_SharedBeatsTier ==
    /\ applied
    /\ ret = <<2, 1>>
    /\ RankTier(1) = 0 /\ arg.brandsOf[1] = PlainBrand
    /\ RankTier(2) = 2 /\ arg.brandsOf[2] = SharedBrand

\* the sentinel stands at b[a..] as a whole comma-separated token: up to the
\* nearest comma or end on either side there are only blanks
SentinelTokenAt(b, a) ==
    LET z == a + Len(Sentinel) - 1 IN
    /\ z <= Len(b)
    /\ \A i \in 1..Len(Sentinel) : LowerChar(b[a + i - 1]) = Sentinel[i]
    /\ \A k \in 1..(a - 1) : (\A m \in k..(a - 1) : b[m] # ",") => b[k] = " "
    /\ \A k \in (z + 1)..Len(b) : (\A m \in (z + 1)..k : b[m] # ",") => b[k] = " "

HasSentinelToken(b) == \E a \in 1..Len(b) : SentinelTokenAt(b, a)

\* C2: the shared flag is 0 exactly when the brand list, split on commas,
\* trimmed and compared without regard to case, holds the sentinel as a whole
\* token; a tag that only contains it, and an empty or blank list, give 1; the
\* API ranker and the renderer compute the same flag.
Thm_C2_SharedFlag ==
    applied =>
        /\ ret.api = (IF HasSentinelToken(arg.brands) THEN 0 ELSE 1)
        /\ ret.bot = ret.api

\* C2: a list with the sentinel in upper and lower case, padded, beside
\* another (empty) part.
Wit_C2_MixedCaseToken ==
    /\ applied
    /\ ret.api = 0 /\ ret.bot = 0
    /\ {",", "O", " "} \subseteq Range(arg.brands)

\* C3: for every group in the aggregator's output the recorded tier is the
\* minimum tier over the candidates of that group, in whatever order the
\* candidates are iterated; the output holds every group of the candidates once.
Thm_C3_BestTierIsMin ==
    applied =>
        /\ Range(DictKeys(ret)) = {c.group_id : c \in Range(arg.candidates)}
        /\ \A i, j \in DOMAIN ret : i # j => ret[i].group_id # ret[j].group_id
        /\ \A i \in DOMAIN ret :
               /\ \E c \in Range(arg.candidates) :
                      c.group_id = ret[i].group_id /\ c.score = ret[i].score
               /\ \A c \in Range(arg.candidates) :
                      c.group_id = ret[i].group_id => ret[i].score <= c.score

\* C3: a group whose better candidate comes after a worse one.
Wit_C3_DescendingOrder ==
    /\ applied
    /\ \E i, j \in DOMAIN arg.candidates :
           /\ i < j
           /\ arg.candidates[i].group_id = arg.candidates[j].group_id
           /\ arg.candidates[i].score > arg.candidates[j].score
           /\ DictGet(ret, arg.candidates[j].group_id).score = arg.candidates[j].score

PrefixOf(p, s) == Len(p) <= Len(s) /\ \A i \in 1..Len(p) : s[i] = p[i]
InfixOf(p, s) ==
    \E k \in 0..(Len(s) - Len(p)) : \A i \in 1..Len(p) : s[k + i] = p[i]
EqNoCase(s, t) ==
    Len(s) = Len(t) /\ \A i \in 1..Len(s) : LowerChar(s[i]) = LowerChar(t[i])
InfixNoCase(p, s) ==
    \E k \in 0..(Len(s) - Len(p)) :
        \A i \in 1..Len(p) : LowerChar(s[k + i]) = LowerChar(p[i])

\* the tier the rules give an entry: the first rule it satisfies
ExpectedScores(param, kind, text) ==
    LET n == normalize(param)
        na == normalize(text)
        qs == Strip(param)
    IN  IF kind = "alias"
        THEN IF na = n THEN <<0>>
             ELSE IF PrefixOf(n, na) THEN <<1>>
             ELSE IF InfixOf(n, na) THEN <<2>>
             ELSE <<>>
        ELSE IF EqNoCase(text, qs) THEN <<3>>
             ELSE IF InfixNoCase(qs, text) THEN <<4>>
             ELSE <<>>

\* C4: every candidate's tier is in 0..4 and an entry yields at most one
\* candidate, for the first rule it satisfies: an alias 0 if its normalized form
\* equals the normalized query, else 1 if it starts with it, else 2 if it
\* contains it; a record 3 if its name equals the trimmed query without regard
\* to case, else 4 if it contains it.
Thm_C4_OneTierPerEntry ==
    (applied /\ ~ret.rejected) =>
        /\ Len(ret.scores) <= 1
        /\ Range(ret.scores) \subseteq Tiers
        /\ ret.scores = ExpectedScores(arg.q, arg.kind, arg.text)

\* C4: an alias equal to the query after normalization only (it also starts
\* with and contains the query) yields the one candidate of tier 0.
Wit_C4_ExactAliasOnce ==
    /\ applied
    /\ ~ret.rejected
    /\ arg.kind = "alias"
    /\ arg.text # arg.q
    /\ ret.scores = <<0>>

\* the lines of the k-th group block of a rendered text
BlockLines(lines, k) ==
    LET start == CHOOSE i \in DOMAIN lines :
                     lines[i].kind = "variant" /\ lines[i].nums = <<k>>
        later == {i \in DOMAIN lines :
                     i > start /\ lines[i].kind \in {"variant", "summary"}}
        stop == IF later = {} THEN Len(lines) + 1
                ELSE CHOOSE i \in later : \A j \in later : i <= j
    IN  SubSeq(lines, start, stop - 1)

LinesOfKind(lines, kind) == SelectSeq(lines, LAMBDA l : l.kind = kind)

\* the distinct names of a list after trimming, in order of first occurrence
DistinctNames(items) ==
    LET t == [i \in DOMAIN items |-> Strip(items[i])]
        first == {i \in DOMAIN t : t[i] # <<>> /\ \A j \in 1..(i - 1) : t[j] # t[i]}
        nth(n) == CHOOSE i \in first : Cardinality({j \in first : j <= i}) = n
    IN  [n \in 1..Cardinality(first) |-> t[nth(n)]]

GroupItems(k) == SubSeq(arg.items, k, Len(arg.items))

\* C10: in a free render with cap c >= 0 a group of N distinct names shows the
\* first min(N, c) of them; when N > c one locked line counts the N - c hidden
\* names, and when N <= c there is no locked line.
Thm_C10_FreeCap ==
    (applied /\ ~arg.is_premium /\ arg.limit >= 0) =>
        \A k \in 1..Min(arg.ngroups, max_groups) :
            LET names == DistinctNames(GroupItems(k))
                N == Len(names)
                c == arg.limit
                block == BlockLines(ret, k)
                items == LinesOfKind(block, "item")
                locked == LinesOfKind(block, "locked")
            IN  /\ [i \in DOMAIN items |-> items[i].text] = SubSeq(names, 1, Min(N, c))
                /\ N > c => locked = <<Line("locked", <<>>, <<N - c>>)>>
                /\ N <= c => locked = <<>>

\* C10, the example of the claim: 5 distinct names under cap 3 give 3 item
\* lines and a locked line counting 2.
Wit_C10_FiveUnderCapThree ==
    /\ applied /\ ~arg.is_premium /\ arg.limit = 3
    /\ Len(DistinctNames(GroupItems(1))) = 5
    /\ Len(LinesOfKind(BlockLines(ret, 1), "item")) = 3
    /\ LinesOfKind(BlockLines(ret, 1), "locked") = <<Line("locked", <<>>, <<2>>)>>

AllSpaces(s) == \A i \in DOMAIN s : s[i] = " "

\* C5: a query that is empty or blank after trimming is rejected: the API
\* answers 400 without running a lookup, the bot handler returns without
\* calling the API, and the outcome is neither "not found" nor a match.
Thm_C5_EmptyQueryRejected ==
    /\ (pc # "idle" /\ AllSpaces(q)) =>
           /\ pc = "done"
           /\ response.status = 400 /\ ~response.found /\ response.results = <<>>
           /\ lookups = 0 /\ candidates = <<>> /\ results = <<>>
    /\ (botPc # "idle" /\ AllSpaces(botText)) =>
           /\ botPc = "returned"
           /\ pc = "idle" /\ lookups = 0 /\ rendered = <<>>
    /\ (lookups > 0 \/ response.status = 200) => ~AllSpaces(q)

\* C5: a request with a blank, non-empty q has been answered 400.
Wit_C5_BlankRejected ==
    /\ pc = "done" /\ Len(q) > 0 /\ AllSpaces(q)
    /\ response.status = 400 /\ lookups = 0

CandidateGroups == {c.group_id : c \in Range(candidates)}
ResultGroups(rs) == {rs[i].group.id : i \in DOMAIN rs}
KindsOf(lines) == {lines[i].kind : i \in DOMAIN lines}

\* C6: a non-empty query without candidates, or whose candidates' groups were
\* all inactive when fetched, gets the successful "not found" result with the
\* trimmed query; a found result never has an empty group list; the renderer
\* turns "not found" into the fixed block holding the query.
Thm_C6_NotFound ==
    (pc = "done" /\ ~AllSpaces(q)) =>
        /\ response.status = 200
        /\ (candidates = <<>> \/ \A g \in CandidateGroups : ~fetchActive[g]) =>
               response = [status |-> 200, found |-> FALSE,
                           query |-> Strip(q), results |-> <<>>]
        /\ response.found => response.results # <<>>
        /\ (botPc = "sent" /\ ~response.found) =>
               /\ KindsOf(rendered) = {"nf_title", "blank", "nf_query", "nf_hint",
                                       "nf_example"}
               /\ \A i \in DOMAIN rendered :
                      rendered[i].kind = "nf_query" => rendered[i].text = Strip(q)

\* C6: candidates were found, none of their groups was active at the fetch,
\* and the bot has rendered the "not found" block.
Wit_C6_AllGroupsDropped ==
    /\ pc = "done" /\ botPc = "sent"
    /\ candidates # <<>> /\ ~response.found
    /\ \E i \in DOMAIN rendered : rendered[i].kind = "nf_query"

CandidateTier(g) ==
    CHOOSE t \in Tiers :
        /\ \E c \in Range(candidates) : c.group_id = g /\ c.score = t
        /\ \A c \in Range(candidates) : c.group_id = g => t <= c.score

CatalogFlag(g) == IF HasSentinelToken(GroupBrands[g]) THEN 0 ELSE 1

\* C7: a candidate's group that is inactive when the group metadata is fetched
\* is dropped; the other groups are returned as found, in ranked order; the
\* outcome is "not found" only when every candidate group was dropped.
Thm_C7_StaleDropped ==
    (pc = "done" /\ candidates # <<>>) =>
        LET kept == {g \in CandidateGroups : fetchActive[g]}
            rs == response.results
        IN  /\ response.status = 200
            /\ response.found = (kept # {})
            /\ ResultGroups(rs) = kept
            /\ Len(rs) = Cardinality(kept)
            /\ \A i, j \in DOMAIN rs :
                   i < j => KeyPrecedes(CatalogFlag(rs[i].group.id),
                                        CandidateTier(rs[i].group.id), rs[i].group.id,
                                        CatalogFlag(rs[j].group.id),
                                        CandidateTier(rs[j].group.id), rs[j].group.id)

\* C7: a group was deactivated while the request ran, after it had produced a
\* candidate, and the request still found the other groups.
Wit_C7_DroppedButFound ==
    /\ pc = "done" /\ stale /\ response.found
    /\ \E g \in CandidateGroups : ~fetchActive[g]

ActiveGlass(r) == glassActive[r] /\ groupActive[GlassTable[r].group]

ActiveNamed(g, name) ==
    \E r \in GlassIds : ActiveGlass(r) /\ GlassTable[r].group = g /\ GlassTable[r].name = name

\* C8: with the catalog unchanged since the request began, every candidate
\* comes from an active record of an active group, every group of the result is
\* active, and every item name and matched name of a group is the name of an
\* active record of that group.
Thm_C8_OnlyActive ==
    ~stale =>
        /\ \A c \in Range(candidates) : ActiveNamed(c.group_id, c.name)
        /\ \A i \in DOMAIN results :
               /\ groupActive[results[i].group.id]
               /\ ActiveNamed(results[i].group.id, results[i].matched_glass)
               /\ \A name \in Range(results[i].compatible_glasses) :
                      ActiveNamed(results[i].group.id, name)
        /\ response.found => response.results = results

\* the tiers at which glass r matches the query, by its name or an alias
GlassTiers(r) ==
    Range(ExpectedScores(q, "glass", GlassTable[r].name))
    \cup UNION {Range(ExpectedScores(q, "alias", AliasTable[a].alias)) :
                    a \in {b \in AliasIds : AliasTable[b].glass = r}}

\* C8: a request found groups while a record that matches the query was
\* inactive, or in an inactive group.
Wit_C8_InactiveMatchLeftOut ==
    /\ pc = "done" /\ ~stale /\ response.found
    /\ \E r \in GlassIds : ~ActiveGlass(r) /\ GlassTiers(r) # {}

GroupTiers(g) ==
    UNION {GlassTiers(r) : r \in {x \in GlassIds : ActiveGlass(x) /\ GlassTable[x].group = g}}

MatchingGroups == {g \in GroupIds : GroupTiers(g) # {}}

BestTier(g) == CHOOSE t \in GroupTiers(g) : \A u \in GroupTiers(g) : t <= u

\* C9: the result is a function of the query and the catalog alone, the same
\* for a caller with and without a subscription: with the catalog unchanged
\* since the request began, the groups are the active groups with a matching
\* active record, each with its metadata, a matched name of its best tier and
\* the names of all its active records, never cut.
Thm_C9_TierAgnostic ==
    (pc = "done" /\ ~stale /\ ~AllSpaces(q)) =>
        LET rs == response.results
        IN  /\ response.status = 200
            /\ response.query = Strip(q)
            /\ response.found = (MatchingGroups # {})
            /\ ResultGroups(rs) = MatchingGroups
            /\ Len(rs) = Cardinality(MatchingGroups)
            /\ \A i \in DOMAIN rs :
                   LET g == rs[i].group.id
                       active == {r \in GlassIds : ActiveGlass(r) /\ GlassTable[r].group = g}
                   IN  /\ rs[i].group = [id |-> g, brands |-> GroupBrands[g],
                                         description |-> GroupDescription[g]]
                       /\ Range(rs[i].compatible_glasses) = {GlassTable[r].name : r \in active}
                       /\ Len(rs[i].compatible_glasses) = Cardinality(active)
                       /\ \E r \in active :
                              /\ BestTier(g) \in GlassTiers(r)
                              /\ rs[i].matched_glass = GlassTable[r].name

\* C9: a caller without a subscription has received a group with more than
\* one item, rendered by the bot.
Wit_C9_FreeCallerFullList ==
    /\ pc = "done" /\ botPc = "sent" /\ ~premium /\ ~stale
    /\ \E i \in DOMAIN response.results :
           Len(response.results[i].compatible_glasses) > 1

\* the positions of the lines of one kind in a rendered text
PositionsOfKind(lines, kind) == {i \in DOMAIN lines : lines[i].kind = kind}

\* C11: a premium render of a found result shows, in every shown group, all
\* the distinct names of the group, and has no locked line and no
\* call-to-action line; a free render has exactly one call-to-action line,
\* and it stands before the first group block.
Thm_C11_TierLines ==
    applied =>
        LET cta == PositionsOfKind(ret, "call_to_action")
            variants == PositionsOfKind(ret, "variant")
        IN  /\ arg.is_premium =>
                /\ cta = {}
                /\ PositionsOfKind(ret, "locked") = {}
                /\ \A k \in 1..Min(arg.ngroups, max_groups) :
                       LET items == LinesOfKind(BlockLines(ret, k), "item")
                       IN  [i \in DOMAIN items |-> items[i].text]
                               = DistinctNames(GroupItems(k))
            /\ ~arg.is_premium =>
                /\ Cardinality(cta) = 1
                /\ \A i \in cta : \A j \in variants : i < j

\* C11: a premium render of six groups whose first group has five distinct
\* names, and under a cap that a free render would cut at.
Wit_C11_PremiumFullList ==
    /\ applied /\ arg.is_premium /\ arg.limit = 3 /\ arg.ngroups = 6
    /\ Len(DistinctNames(GroupItems(1))) = 5
    /\ Len(LinesOfKind(BlockLines(ret, 1), "item")) = 5

\* C12: a found result of n groups renders min(n, 5) group blocks numbered
\* 1..min(n, 5) in order; the summary line is there exactly when n > 5, it is
\* the last line, and it states 5 shown, n in all, n - 5 remaining.
Thm_C12_GroupCap ==
    applied =>
        LET n == arg.ngroups
            variants == LinesOfKind(ret, "variant")
            summary == LinesOfKind(ret, "summary")
        IN  /\ [i \in DOMAIN variants |-> variants[i].nums]
                   = [i \in 1..Min(n, 5) |-> <<i>>]
            /\ n <= 5 => summary = <<>>
            /\ n > 5 => /\ summary = <<Line("summary", <<>>, <<5, n, n - 5>>)>>
                        /\ ret[Len(ret)].kind = "summary"

\* C12, the example of the claim: seven groups give five blocks and the
\* summary "5 of 7, 2 more".
Wit_C12_SevenGroups ==
    /\ applied /\ arg.ngroups = 7
    /\ Len(LinesOfKind(ret, "variant")) = 5
    /\ LinesOfKind(ret, "summary") = <<Line("summary", <<>>, <<5, 7, 2>>)>>


\* the lines of a text
LinesOf(text) == SplitOn(text, "\n")

\* C13: every chunk is at most max_len long, or it is one line of the
\* payload (trimmed) that is itself longer than max_len.
Thm_C13_ChunkWithinLimit ==
    applied =>
        \A i \in DOMAIN ret :
            \/ Len(ret[i]) <= arg.max_len
            \/ /\ "\n" \notin Range(ret[i])
               /\ \E k \in DOMAIN LinesOf(arg.text) :
                      /\ Len(LinesOf(arg.text)[k]) > arg.max_len
                      /\ ret[i] = Strip(LinesOf(arg.text)[k])

\* C13: a payload over the limit cut into several chunks, none over the
\* limit, one of them of several lines and exactly as long as the limit.
Wit_C13_FullChunk ==
    /\ applied /\ Len(arg.text) > arg.max_len /\ Len(ret) >= 2
    /\ \A i \in DOMAIN ret : Len(ret[i]) <= arg.max_len
    /\ \E i \in DOMAIN ret : Len(ret[i]) = arg.max_len /\ "\n" \in Range(ret[i])

\* the lines of a text that are not blank, trimmed
TrimmedLines(text) ==
    LET t == [k \in DOMAIN LinesOf(text) |-> Strip(LinesOf(text)[k])]
    IN  SelectSeqIn(t, Range(t) \ {<<>>})

\* C14: the chunks, put one after the other with a line break between them,
\* hold the words of the payload, all of them, once each and in the same
\* order; and every line of a chunk is a line of the payload with the blanks
\* inside it unchanged.
Thm_C14_Lossless ==
    applied =>
        /\ SplitWs(Join(<<"\n">>, ret)) = SplitWs(arg.text)
        /\ \A i \in DOMAIN ret :
               Range(TrimmedLines(ret[i])) \subseteq Range(TrimmedLines(arg.text))

\* C14: a payload with a marker cut into several chunks that differ from the
\* payload in the white space at the cuts.
Wit_C14_WhitespaceAtCut ==
    /\ applied /\ Len(ret) >= 2
    /\ Contains(arg.text, marker)
    /\ Join(<<"\n">>, ret) # arg.text
    /\ \E i \in DOMAIN arg.text : arg.text[i] = " " /\ i > 1 /\ arg.text[i - 1] = "x"

\* the header and the group blocks of a payload, each trimmed: a group block
\* runs from one marker to the next; an empty header is left out
BlocksOf(text) ==
    LET parts == SplitSeq(text, marker)
        all == [k \in DOMAIN parts |->
                   IF k = 1 THEN Strip(parts[1]) ELSE Strip(marker \o parts[k])]
    IN  IF all[1] = <<>> THEN Tail(all) ELSE all

\* blocks lo..hi joined by an empty line
Packed(blocks, lo, hi) == Join(<<"\n", "\n">>, SubSeq(blocks, lo, hi))

\* the runs lo..hi that cutting a list of m blocks after the blocks in cuts
\* makes
RunsOf(m, cuts) ==
    {<<lo, hi>> \in (1..m) \X (1..m) :
        /\ lo <= hi
        /\ lo = 1 \/ (lo - 1) \in cuts
        /\ hi = m \/ hi \in cuts
        /\ \A k \in lo..(hi - 1) : k \notin cuts}

\* C15: when the payload is over the limit its blocks are cut into runs of
\* consecutive blocks such that a run of several blocks is within the limit,
\* every run within the limit is one chunk, whole, and a run ends only where
\* the next block would take it over the limit.  So a block within the limit
\* is never divided.
Thm_C15_BlockBoundaries ==
    (applied /\ Len(arg.text) > arg.max_len) =>
        LET blocks == BlocksOf(arg.text)
            m == Len(blocks)
        IN  \E cuts \in SUBSET (1..(m - 1)) :
                /\ \A r \in RunsOf(m, cuts) :
                       LET joined == Packed(blocks, r[1], r[2])
                       IN  /\ r[2] > r[1] => Len(joined) <= arg.max_len
                           /\ Len(joined) <= arg.max_len => joined \in Range(ret)
                           /\ r[2] < m =>
                                  Len(joined) + 2 + Len(blocks[r[2] + 1]) > arg.max_len
                /\ \A k \in 1..m : Len(blocks[k]) <= arg.max_len =>
                       \E i \in DOMAIN ret : Contains(ret[i], blocks[k])

\* C15: three blocks, the first two in one chunk and the third in the next.
Wit_C15_TwoPackedOneApart ==
    /\ applied /\ Len(arg.text) > arg.max_len
    /\ Len(BlocksOf(arg.text)) = 3
    /\ ret = <<Packed(BlocksOf(arg.text), 1, 2), BlocksOf(arg.text)[3]>>

\* C16: when the payload is over the limit, every chunk is a run of whole
\* blocks or, for a block longer than the limit, a run of whole consecutive
\* lines of that block, trimmed at the two ends of the chunk.
Thm_C16_LineFallback ==
    (applied /\ Len(arg.text) > arg.max_len) =>
        LET blocks == BlocksOf(arg.text)
        IN  \A i \in DOMAIN ret :
                \/ \E lo, hi \in DOMAIN blocks :
                       lo <= hi /\ ret[i] = Packed(blocks, lo, hi)
                \/ \E k \in DOMAIN blocks :
                       /\ Len(blocks[k]) > arg.max_len
                       /\ \E a, c \in DOMAIN LinesOf(blocks[k]) :
                              /\ a <= c
                              /\ ret[i] = Strip(Join(<<"\n">>,
                                                     SubSeq(LinesOf(blocks[k]), a, c)))

\* C16: a payload of one block, longer than the limit, cut into two chunks of
\* which the first holds two lines.
Wit_C16_TwoLinesThenOne ==
    /\ applied /\ Len(arg.text) > arg.max_len
    /\ ~Contains(arg.text, marker)
    /\ Len(ret) = 2
    /\ "\n" \in Range(ret[1])
    /\ ret[1] # BlocksOf(arg.text)[1]

\* C17: normalize applied twice gives what it gives applied once, and it
\* gives the empty string for None, for the empty string and for a string of
\* white space only.
Thm_C17_NormalizeIdempotent ==
    applied =>
        /\ ret.twice = ret.once
        /\ (arg.s = None \/ \A i \in DOMAIN arg.s : IsSpace(arg.s[i]))
               => ret.once = <<>>

\* C17: a string with a capital, a run of white space inside and white space
\* at an end, which normalize changes.
Wit_C17_CollapsedAndLowered ==
    /\ applied /\ arg.s = <<"B", " ", "\n", "a">>
    /\ ret.once = <<"b", " ", "a">>
    /\ ret.twice = ret.once

\* C18: the chat has received the first chunks of the list, each once and
\* in the order of the list; while the call for chunk i is awaited the chat
\* has exactly the chunks before i; and when send_long_html returns the chat
\* has them all.
Thm_C18_InOrder ==
    /\ Len(delivered) <= Len(sendParts)
    /\ delivered = SubSeq(sendParts, 1, Len(delivered))
    /\ sendPc \in {"loop", "awaiting"} => Len(delivered) = sendIdx - 1
    /\ sendPc = "done" => delivered = sendParts

\* C18: send_long_html has returned after sending three chunks that are not
\* all alike.
Wit_C18_ThreeChunksSent ==
    /\ sendPc = "done" /\ Len(sendParts) = 3
    /\ delivered = sendParts
    /\ sendParts[1] # sendParts[3]

\* a step of SearchView.get: the request moves on, and not back to idle
GetStep == pc' # "idle" /\ (pc' # pc \/ lookups' # lookups \/ response' # response)

\* C19: no step of SearchView.get, whatever the outcome of the request,
\* changes the activity of a group or of a glass, the count of catalog
\* writes, or the caller's subscription.
Thm_C19_GetWritesNothing ==
    [][GetStep => UNCHANGED <<groupActive, glassActive, adminOps, premium>>]_vars

\* C19: a request has returned a found result of two groups after eight or
\* more database queries, and the catalog is as it was at the start.
Wit_C19_FoundAndUntouched ==
    /\ pc = "done" /\ response.found /\ Len(response.results) >= 2
    /\ lookups >= 8
    /\ IdleCatalog

\* the candidate lists views.py:83-93 may build for a query on a catalog: one
\* for every order in which the database may return the rows of each queryset
PossibleCandidates(gA, rA, n, qs) ==
    LET aliases(test(_, _)) ==
            OrderedBy({a \in alias_base(gA, rA) : test(normalized_alias(a), n)}, AliasKey)
        glasses(test(_, _)) ==
            OrderedBy({r \in glass_base(gA, rA) : test(GlassTable[r].name, qs)}, GlassKey)
    IN  {AliasCandidates(0, r0) \o AliasCandidates(1, r1) \o AliasCandidates(2, r2)
             \o GlassCandidates(3, r3) \o GlassCandidates(4, r4) :
         r0 \in aliases(in_alias_exact), r1 \in aliases(in_alias_starts),
         r2 \in aliases(in_alias_contains),
         r3 \in glasses(in_name_exact), r4 \in glasses(in_name_contains)}

\* the name of the first candidate of a group among its candidates of the
\* lowest tier
FirstAtBestTier(cands, gid) ==
    LET mine == {i \in DOMAIN cands : cands[i].group_id = gid}
        best == {i \in mine : \A j \in mine : cands[i].score <= cands[j].score}
        first == CHOOSE i \in best : \A j \in best : i <= j
    IN  cands[first].name

\* the first half of C20: the name reported for a group is that of the first
\* candidate emitted for it at its lowest tier
FirstSeenKept ==
    (pc = "done" /\ response.found) =>
        \A i \in DOMAIN response.results :
            response.results[i].matched_glass
                = FirstAtBestTier(candidates, response.results[i].group.id)

\* C20: the name reported for a group is that of the first candidate emitted
\* for it at its lowest tier, and the query and the catalog determine it: the
\* name is the same for every order in which the database may return the
\* rows.  (Stated for requests during which the catalog is not written.)
Cex_C20_MatchedNameDetermined ==
    /\ FirstSeenKept
    /\ (pc = "done" /\ response.found /\ ~stale) =>
           \A i \in DOMAIN response.results :
               \A cs \in PossibleCandidates(groupActive, glassActive, qn, q_stripped) :
                   FirstAtBestTier(cs, response.results[i].group.id)
                       = response.results[i].matched_glass

\* the candidates emitted for a group
CandidatesOf(g) == {i \in DOMAIN candidates : candidates[i].group_id = g}

\* C21: no group id occurs twice in the result list, neither in the list as
\* it is built nor in the response.
Thm_C21_OneEntryPerGroup ==
    /\ \A i, j \in DOMAIN results :
           i # j => results[i].group.id # results[j].group.id
    /\ \A i, j \in DOMAIN response.results :
           i # j => response.results[i].group.id # response.results[j].group.id

\* C21: a found response with one entry for a group that three or more
\* candidates of two or more tiers were emitted for.
Wit_C21_ManyCandidatesOneEntry ==
    /\ pc = "done" /\ response.found
    /\ \E g \in GroupIds :
           /\ Cardinality(CandidatesOf(g)) >= 3
           /\ Cardinality({candidates[i].score : i \in CandidatesOf(g)}) >= 2
           /\ Cardinality({i \in DOMAIN response.results :
                              response.results[i].group.id = g}) = 1


\* the texts of the item lines of the k-th group block
ItemTexts(k) ==
    LET items == LinesOfKind(BlockLines(ret, k), "item")
    IN  [i \in DOMAIN items |-> items[i].text]

\* the position at which a name first occurs in a list, after trimming
FirstOccurrence(items, name) ==
    CHOOSE i \in DOMAIN items :
        /\ Strip(items[i]) = name
        /\ \A j \in 1..(i - 1) : Strip(items[j]) # name

\* C22: in every shown group no name is rendered twice, every rendered name
\* is a name of the group, the rendered names stand in the order of their
\* first occurrences, and in a premium render every name of the group is
\* rendered, so that two names that differ, be it only in letter case, are
\* both there.  Names are compared as they are after trimming.
Thm_C22_ExactDedup ==
    applied =>
        \A k \in 1..Min(arg.ngroups, max_groups) :
            LET texts == ItemTexts(k)
                given == {Strip(GroupItems(k)[i]) : i \in DOMAIN GroupItems(k)}
            IN  /\ \A i, j \in DOMAIN texts : i # j => texts[i] # texts[j]
                /\ \A i \in DOMAIN texts : texts[i] \in given \ {<<>>}
                /\ \A i, j \in DOMAIN texts :
                       i < j => FirstOccurrence(GroupItems(k), texts[i])
                                    < FirstOccurrence(GroupItems(k), texts[j])
                /\ arg.is_premium => Range(texts) = given \ {<<>>}

\* C22: a group whose list repeats a name and holds a second name that
\* differs from it in letter case only; the name is rendered once, at its
\* first place, and the other spelling is rendered too.
Wit_C22_RepeatAndCaseVariant ==
    /\ applied /\ arg.is_premium
    /\ arg.items = << <<"A">>, <<"B">>, <<"a">>, <<"A">> >>
    /\ ItemTexts(1) = << <<"A">>, <<"B">>, <<"a">> >>

\* C23: a shown group without item names has, in either tier and under any
\* cap, the item-list heading once in its block and, between the heading and
\* the empty line that separates the next block, one placeholder line and
\* nothing else.
Thm_C23_EmptyPlaceholder ==
    applied =>
        \A k \in 1..Min(arg.ngroups, max_groups) :
            DistinctNames(GroupItems(k)) = <<>> =>
                LET block == BlockLines(ret, k)
                    heading == PositionsOfKind(block, "items_heading")
                IN  /\ Cardinality(heading) = 1
                    /\ \A h \in heading :
                           SelectSeq(SubSeq(block, h + 1, Len(block)),
                                     LAMBDA l : l.kind # "blank")
                               = <<Line("empty", <<>>, <<>>)>>

\* C23: a free render whose second group has no names at all, and a list
\* whose only item is blank.
Wit_C23_NoNamesFreeTier ==
    /\ applied /\ ~arg.is_premium /\ arg.ngroups = 2
    /\ arg.items = << <<" ">> >>
    /\ LinesOfKind(BlockLines(ret, 1), "empty") # <<>>
    /\ LinesOfKind(BlockLines(ret, 2), "empty") # <<>>

\* C24: the statement as the claim has it: in every tier and under every cap
\* a shown group with at least one item name has no placeholder line.
Cex_C24_PlaceholderOnlyWhenEmpty ==
    applied =>
        \A k \in 1..Min(arg.ngroups, max_groups) :
            DistinctNames(GroupItems(k)) # <<>> =>
                LinesOfKind(BlockLines(ret, k), "empty") = <<>>


\* C30: the group blocks of the rendered text are the first min(n, 5) entries
\* of the list the API returned, in the order of that list: the k-th block
\* carries the matched name and the brand tag of the k-th entry, and there are
\* no other blocks.
Thm_C30_RankingPreserved ==
    applied =>
        LET shown == Min(Len(ret.api), max_groups)
            variants == LinesOfKind(ret.text, "variant")
        IN  /\ [i \in DOMAIN variants |-> variants[i].nums] = [k \in 1..shown |-> <<k>>]
            /\ \A k \in 1..shown :
                   LET block == BlockLines(ret.text, k)
                   IN  /\ LinesOfKind(block, "matched")
                              = <<Line("matched", ret.api[k].matched_glass, <<>>)>>
                       /\ LinesOfKind(block, "brands")
                              = <<Line("brands", ret.api[k].group.brands, <<>>)>>

\* C30: seven groups whose API order is not the order of the ids: the shared
\* group 7 leads, and among the plain groups a higher id precedes a lower one.
Wit_C30_SevenGroupsReordered ==
    /\ applied /\ Len(ret.api) = 7
    /\ ret.api[1].group.id = 7
    /\ ret.api[2].group.id > ret.api[3].group.id
    /\ ret.api[2].group.brands = ret.api[3].group.brands
    /\ Len(LinesOfKind(ret.text, "matched")) = max_groups


\* C29: the statement as the claim has it, catalog writes during the request
\* included: in every entry of a found response the matched name is among the
\* entry's item names, and a record of the entry's group carries that name.
Cex_C29_MatchedAmongItems ==
    (pc = "done" /\ response.found) =>
        \A i \in DOMAIN response.results :
            LET e == response.results[i]
            IN  /\ e.matched_glass \in Range(e.compatible_glasses)
                /\ \E r \in GlassIds :
                       /\ GlassTable[r].group = e.group.id
                       /\ GlassTable[r].name = e.matched_glass


\* the StarPayment rows and the added periods that carry a charge id
RowsOfCharge(c) ==
    {i \in DOMAIN starPayments : starPayments[i].telegram_payment_charge_id = c}

ExtensionsOfCharge(c) == {i \in DOMAIN extensions : extensions[i].charge = c}

\* the tables the payment handlers write
payTables == <<premiumUntil, starPayments, extensions>>

\* a run of _apply_success_payment_sync finds the row of its charge id at
\* main.py:212 and returns
AlreadyStep(d) ==
    /\ dl[d].pc = "check" /\ dl'[d].pc = "done"

\* every charge id has at most one StarPayment row and at most one added period
OncePerCharge ==
    \A d \in Deliveries :
        /\ Cardinality(RowsOfCharge(dl[d].charge)) <= 1
        /\ Cardinality(ExtensionsOfCharge(dl[d].charge)) <= 1

\* C25: after every step a charge id has at most one StarPayment row and has
\* added at most one period to premium_until, whatever deliveries ran and
\* however they interleaved; a delivery that finds the row of its charge id
\* reports "already processed", is not ok, and writes nothing.
Thm_C25_ChargeAppliedOnce ==
    [][/\ OncePerCharge'
       /\ \A d \in Deliveries :
              AlreadyStep(d) =>
                  /\ RowsOfCharge(dl[d].charge) # {}
                  /\ ~dl'[d].ok /\ dl'[d].msg = "already"
                  /\ UNCHANGED payTables]_vars

\* C25: two deliveries of one charge id ran side by side: both passed the
\* check of main.py:212, one created the row and added the period, the other
\* was stopped by the unique column.
Wit_C25_ConcurrentSameCharge ==
    \E d, e \in Deliveries :
        /\ d # e /\ dl[d].charge = dl[e].charge
        /\ dl[d].pc = "done" /\ dl[d].ok
        /\ dl[e].pc = "raised"
        /\ Cardinality(RowsOfCharge(dl[d].charge)) = 1
        /\ Cardinality(ExtensionsOfCharge(dl[d].charge)) = 1

\* the five ways a payment message fails the validation of main.py:193-209,
\* on the plan row as it is when the plan is looked up
FailsValidation(ev) ==
    \/ ev.currency # "XTR"
    \/ ~parse_payload(ev.invoice_payload).parsed
    \/ parse_payload(ev.invoice_payload).user_id # ev.tg_id
    \/ parse_payload(ev.invoice_payload).plan_code # PlanCode
    \/ ~planActive
    \/ ev.total_amount # planPrice

\* C26: a run of _apply_success_payment_sync on a message that fails the
\* validation returns not ok at this step, with no StarPayment row created
\* and premium_until, the plan and the clock untouched.
Thm_C26_InvalidChangesNothing ==
    [][\A d \in Deliveries :
           (dl[d].pc = "validate" /\ dl'[d] # dl[d] /\ FailsValidation(dl[d].ev)) =>
               /\ dl'[d].pc = "done" /\ ~dl'[d].ok
               /\ dl'[d].msg \in {"currency", "payload", "user", "plan", "amount"}
               /\ UNCHANGED <<payTables, planActive, planPrice>>]_vars

\* C26: one message has failed on its amount alone and one on its payload; no
\* row exists and premium_until is still null.
Wit_C26_AmountAndPayloadRejected ==
    /\ dl[1].pc = "done" /\ ~dl[1].ok /\ dl[1].msg = "amount"
    /\ dl[2].pc = "done" /\ ~dl[2].ok /\ dl[2].msg = "payload"
    /\ starPayments = <<>> /\ premiumUntil = Null

\* C27: the statement as the claim has it: every payment accepted at
\* pre-checkout whose successful-payment message has been handled has added
\* exactly one period to premium_until.
Cex_C27_AcceptedIsExtended ==
    \A d \in Deliveries :
        (dl[d].accepted /\ dl[d].pc \in {"done", "raised"}) =>
            Cardinality(ExtensionsOfCharge(dl[d].charge)) = 1

\* a run of the transaction of main.py:216-234 commits
PaidStep(d) ==
    /\ dl[d].pc = "atomic" /\ dl'[d].pc = "done"

====
